---- MODULE Spec2Model ----
(***************************************************************************)
(* A model of the JsonPath engine of SteelBridgeLabs/jsonpath: the path    *)
(* compiler (createPath and the definite flag), the evaluation of a        *)
(* compiled path under the get, set and delete operations, the filter      *)
(* predicates, the slice index algebra and the Get / Set entry points.     *)
(*                                                                         *)
(* A document is a heap of containers.  A value is a scalar or a reference *)
(* to a container, so that a set / delete capsule can capture its owning   *)
(* container the way the Go closures capture a map or a slice.             *)
(***************************************************************************)
EXTENDS Integers, Sequences, FiniteSets, TLC

\* ------------------------------------------------------------------ bounds
\* the longest array of an initial document
MaxLen == 2
\* the largest integer scalar of an initial document
MaxInt == 2
\* the largest magnitude of a from, to or step of a subscript handed to slice
MaxIndex == 4
\* the largest length handed to slice
MaxLength == 3

\* the key names documents and paths are built from
KeyNames == {"a", "b"}

\* ------------------------------------------------------------------ values
\* a value, a capsule or a key travelling through an Iterator
Val(t, n, s) == [t |-> t, n |-> n, s |-> s, i |-> 0]
IntV(n) == Val("int", n, "")
StrV(s) == Val("string", 0, s)
BoolV(b) == Val("bool", IF b THEN 1 ELSE 0, "")
NullV == Val("null", 0, "")
RefV(a) == Val("ref", a, "")
\* the zero value a Go map lookup gives for a key that is not there
Absent == Val("absent", 0, "")
\* panic(err) of arraySubscriptThen, carried in the result
PanicV == Val("panic", 0, "")

\* type setExpression: writes owner[key] (map owner) or owner[index] (array owner)
setExpression(owner, key, index) == [t |-> "set", n |-> owner, s |-> key, i |-> index]
\* type deleteExpression
deleteExpression(owner, key, index) == [t |-> "delete", n |-> owner, s |-> key, i |-> index]

isCapsule(r) == r.t \in {"set", "delete"}

\* the operation tag threaded through every path expression
getOperation == "get"
setOperation == "set"
deleteOperation == "delete"

\* ------------------------------------------------------------------ containers
\* a native map[string]any (cap = FALSE) or a capability Map (cap = TRUE)
MapObj(cap, m) == [kind |-> "map", cap |-> cap, m |-> m, e |-> <<>>]
\* a native []any (cap = FALSE) or a capability Array (cap = TRUE)
ArrObj(cap, e) == [kind |-> "arr", cap |-> cap, m |-> [k \in KeyNames |-> Absent], e |-> e]
Free == [kind |-> "free", cap |-> FALSE, m |-> [k \in KeyNames |-> Absent], e |-> <<>>]

\* the dynamic type a Go type switch sees
isNativeMap(v, h) == v.t = "ref" /\ h[v.n].kind = "map" /\ ~h[v.n].cap
isMap(v, h) == v.t = "ref" /\ h[v.n].kind = "map" /\ h[v.n].cap
isNativeSlice(v, h) == v.t = "ref" /\ h[v.n].kind = "arr" /\ ~h[v.n].cap
isArray(v, h) == v.t = "ref" /\ h[v.n].kind = "arr" /\ h[v.n].cap
isMapLike(v, h) == isNativeMap(v, h) \/ isMap(v, h)
isArrayLike(v, h) == isNativeSlice(v, h) \/ isArray(v, h)

\* a lookup that reports every key as present
hasKeyAlways(o, k) == TRUE

hasKey(o, k) == k \in KeyNames /\ o.m[k] # Absent

\* ------------------------------------------------------------------ sequences
RECURSIVE Concat(_)
\* FromIterators: the iterators one after the other
Concat(ss) == IF ss = <<>> THEN <<>> ELSE Head(ss) \o Concat(Tail(ss))

Reverse(s) == [j \in 1..Len(s) |-> s[Len(s) + 1 - j]]

\* FromValues(reverse, values...)
FromValues(reverse, values) == IF reverse THEN Reverse(values) ELSE values

\* FromIterators(its...)
FromIterators(its) == Concat(its)

\* the iteration orders a Go map can show: every permutation of the key names
Orders == {o \in [1..Cardinality(KeyNames) -> KeyNames] : \A x, y \in DOMAIN o : x # y => o[x] # o[y]}

\* loopMap: the keys of map m in the order this iteration shows them
loopMap(o, ord) == SelectSeq(ord, LAMBDA k : hasKey(o, k))

\* Map.Keys(keys...) of a capability map: the given keys it has, or all its keys
MapKeys(o, keys, ord) ==
  IF Len(keys) > 0 THEN [j \in 1..Len(SelectSeq(keys, LAMBDA k : hasKey(o, k))) |->
                            StrV(SelectSeq(keys, LAMBDA k : hasKey(o, k))[j])]
  ELSE [j \in 1..Len(loopMap(o, ord)) |-> StrV(loopMap(o, ord)[j])]

\* Map.Values(keys...) of a capability map
MapValues(o, keys, ord) ==
  IF Len(keys) > 0 THEN [j \in 1..Len(SelectSeq(keys, LAMBDA k : hasKey(o, k))) |->
                            o.m[SelectSeq(keys, LAMBDA k : hasKey(o, k))[j]]]
  ELSE [j \in 1..Len(loopMap(o, ord)) |-> o.m[loopMap(o, ord)[j]]]

\* Array.Values(reverse, indexes...) of a capability array (indexes are 0-based)
ArrayValues(o, reverse, indexes) ==
  IF Len(indexes) > 0
  THEN LET ok == SelectSeq(indexes, LAMBDA x : x >= 0 /\ x < Len(o.e))
       IN FromValues(reverse, [j \in 1..Len(ok) |-> o.e[ok[j] + 1]])
  ELSE FromValues(reverse, o.e)

\* ------------------------------------------------------------------ slicer.go
\* a subscript is the text between [ and ] split at its commas; a member is "*" or a
\* list of at most three components split at its colons; a component is blank, an
\* integer, or text strconv.Atoi rejects
Blank == [present |-> FALSE, isInt |-> TRUE, value |-> 0]
Num(n) == [present |-> TRUE, isInt |-> TRUE, value |-> n]
NotInt == [present |-> TRUE, isInt |-> FALSE, value |-> 0]
Member(parts) == [wild |-> FALSE, parts |-> parts]
Wild == [wild |-> TRUE, parts |-> <<>>]

RECURSIVE stepUp(_, _, _, _)
\* for i := from; i < to; i += step
stepUp(i, to, step, length) ==
  IF i < to
  THEN (IF 0 <= i /\ i < length THEN <<i>> ELSE <<>>) \o stepUp(i + step, to, step, length)
  ELSE <<>>

RECURSIVE stepDownUnguarded(_, _, _, _)
\* the descending loop without the test 0 <= i && i < length
stepDownUnguarded(i, to, step, length) ==
  IF i > to THEN <<i>> \o stepDownUnguarded(i + step, to, step, length) ELSE <<>>

RECURSIVE stepDown(_, _, _, _)
\* for i := from; i > to; i += step
stepDown(i, to, step, length) ==
  IF i > to
  THEN (IF 0 <= i /\ i < length THEN <<i>> ELSE <<>>) \o stepDown(i + step, to, step, length)
  ELSE <<>>

\* indices with loops that run up to and including to
indicesToInclusive(from, to, step, length) ==
  IF step > 0
  THEN stepUp(IF from < 0 THEN 0 ELSE from, (IF to > length THEN length ELSE to) + 1, step, length)
  ELSE IF step < 0
  THEN stepDown(IF from > length THEN length ELSE from, (IF to < -1 THEN -1 ELSE to) - 1, step, length)
  ELSE <<>>

indices(from, to, step, length) ==
  IF step > 0
  THEN stepUp(IF from < 0 THEN 0 ELSE from, IF to > length THEN length ELSE to, step, length)
  ELSE IF step < 0
  THEN stepDown(IF from > length THEN length ELSE from, IF to < -1 THEN -1 ELSE to, step, length)
  ELSE <<>>

sliceOk(idx) == [err |-> FALSE, msg |-> "", member |-> -1, idx |-> idx]
sliceErr(msg) == [err |-> TRUE, msg |-> msg, member |-> -1, idx |-> <<>>]

\* slice on a subscript without commas that rejects a single index outside the container
sliceOneRejectingOutOfRange(mem, length) ==
  IF mem.wild THEN sliceOk(indices(0, length, 1, length))
  ELSE IF Len(mem.parts) > 3 THEN sliceErr("malformed array index, too many colons")
  ELSE IF \E j \in 1..Len(mem.parts) : mem.parts[j].present /\ ~mem.parts[j].isInt
  THEN sliceErr("non-integer array index")
  ELSE LET sFrom == mem.parts[1]
           sTo == IF Len(mem.parts) >= 2 THEN mem.parts[2] ELSE Blank
           sStep == IF Len(mem.parts) >= 3 THEN mem.parts[3] ELSE Blank
       IN IF Len(mem.parts) = 1
          THEN IF ~sFrom.present THEN sliceErr("array index missing")
               ELSE LET from == IF sFrom.value < 0 THEN sFrom.value + length ELSE sFrom.value
                    IN IF from < 0 \/ from >= length THEN sliceErr("array index out of range")
                       ELSE sliceOk(indices(from, from + 1, 1, length))
          ELSE IF sStep.present /\ sStep.value = 0
          THEN sliceErr("array index step value must be non-zero")
          ELSE LET step == IF sStep.present THEN sStep.value ELSE 1
                   from == IF sFrom.present
                           THEN (IF sFrom.value < 0 THEN sFrom.value + length ELSE sFrom.value)
                           ELSE (IF step > 0 THEN 0 ELSE length - 1)
                   to == IF sTo.present
                         THEN (IF sTo.value < 0 THEN sTo.value + length ELSE sTo.value)
                         ELSE (IF step > 0 THEN length ELSE -1)
               IN sliceOk(indices(from, to, step, length))

\* slice on a subscript without commas
sliceOne(mem, length) ==
  IF mem.wild THEN sliceOk(indices(0, length, 1, length))
  ELSE IF Len(mem.parts) > 3 THEN sliceErr("malformed array index, too many colons")
  ELSE IF \E j \in 1..Len(mem.parts) : mem.parts[j].present /\ ~mem.parts[j].isInt
  THEN sliceErr("non-integer array index")
  ELSE LET sFrom == mem.parts[1]
           sTo == IF Len(mem.parts) >= 2 THEN mem.parts[2] ELSE Blank
           sStep == IF Len(mem.parts) >= 3 THEN mem.parts[3] ELSE Blank
       IN IF Len(mem.parts) = 1
          THEN IF ~sFrom.present THEN sliceErr("array index missing")
               ELSE LET from == IF sFrom.value < 0 THEN sFrom.value + length ELSE sFrom.value
                    IN sliceOk(indices(from, from + 1, 1, length))
          ELSE IF sStep.present /\ sStep.value = 0
          THEN sliceErr("array index step value must be non-zero")
          ELSE LET step == IF sStep.present THEN sStep.value ELSE 1
                   from == IF sFrom.present
                           THEN (IF sFrom.value < 0 THEN sFrom.value + length ELSE sFrom.value)
                           ELSE (IF step > 0 THEN 0 ELSE length - 1)
                   to == IF sTo.present
                         THEN (IF sTo.value < 0 THEN sTo.value + length ELSE sTo.value)
                         ELSE (IF step > 0 THEN length ELSE -1)
               IN sliceOk(indices(from, to, step, length))

RECURSIVE sliceUnionSkippingErrors(_, _, _, _)
\* a union loop that leaves out a member slice rejects and goes on
sliceUnionSkippingErrors(sub, j, length, combination) ==
  IF j > Len(sub) THEN sliceOk(combination)
  ELSE IF sub[j].wild
  THEN [err |-> TRUE, msg |-> "wildcard cannot be used in union", member |-> j - 1, idx |-> <<>>]
  ELSE LET sl == sliceOne(sub[j], length)
       IN sliceUnionSkippingErrors(sub, j + 1, length, combination \o sl.idx)

RECURSIVE sliceUnionSorted(_, _, _, _)
\* a union loop that merges the indexes of a member into the sorted set of those before
sliceUnionSorted(sub, j, length, combination) ==
  IF j > Len(sub) THEN sliceOk(combination)
  ELSE IF sub[j].wild
  THEN [err |-> TRUE, msg |-> "wildcard cannot be used in union", member |-> j - 1, idx |-> <<>>]
  ELSE LET sl == sliceOne(sub[j], length)
           all == {combination[k] : k \in 1..Len(combination)} \cup {sl.idx[k] : k \in 1..Len(sl.idx)}
           sorted == [k \in 1..Cardinality(all) |->
                       CHOOSE x \in all : Cardinality({y \in all : y < x}) = k - 1]
       IN IF sl.err THEN [err |-> TRUE, msg |-> sl.msg, member |-> j - 1, idx |-> <<>>]
          ELSE sliceUnionSorted(sub, j + 1, length, sorted)

RECURSIVE sliceUnion(_, _, _, _)
\* the loop over the members of a union, from member j on
sliceUnion(sub, j, length, combination) ==
  IF j > Len(sub) THEN sliceOk(combination)
  ELSE IF sub[j].wild
  THEN [err |-> TRUE, msg |-> "wildcard cannot be used in union", member |-> j - 1, idx |-> <<>>]
  ELSE LET sl == sliceOne(sub[j], length)
       IN IF sl.err THEN [err |-> TRUE, msg |-> sl.msg, member |-> j - 1, idx |-> <<>>]
          ELSE sliceUnion(sub, j + 1, length, combination \o sl.idx)

slice(sub, length) ==
  IF Len(sub) > 1 THEN sliceUnion(sub, 1, length, <<>>) ELSE sliceOne(sub[1], length)

\* subscript == "*"
isWildcard(sub) == Len(sub) = 1 /\ sub[1].wild

\* ------------------------------------------------------------------ RecurseValues
\* children that looks into the native containers only
childrenOfNativeOnly(value, d) ==
  IF isNativeSlice(value, d.heap) THEN Reverse(d.heap[value.n].e)
  ELSE IF isNativeMap(value, d.heap)
  THEN [j \in 1..Len(loopMap(d.heap[value.n], d.ord)) |->
          d.heap[value.n].m[loopMap(d.heap[value.n], d.ord)[j]]]
  ELSE <<>>

\* children that pushes the items of an array first item first
childrenInIndexOrder(value, d) ==
  IF isNativeSlice(value, d.heap) THEN d.heap[value.n].e
  ELSE IF isNativeMap(value, d.heap)
  THEN [j \in 1..Len(loopMap(d.heap[value.n], d.ord)) |->
          d.heap[value.n].m[loopMap(d.heap[value.n], d.ord)[j]]]
  ELSE IF isArray(value, d.heap) THEN ArrayValues(d.heap[value.n], FALSE, <<>>)
  ELSE IF isMap(value, d.heap) THEN MapValues(d.heap[value.n], <<>>, d.ord)
  ELSE <<>>

\* the children RecurseValues pushes for one value, bottom of the stack first
children(value, d) ==
  IF isNativeSlice(value, d.heap) THEN Reverse(d.heap[value.n].e)
  ELSE IF isNativeMap(value, d.heap)
  THEN [j \in 1..Len(loopMap(d.heap[value.n], d.ord)) |->
          d.heap[value.n].m[loopMap(d.heap[value.n], d.ord)[j]]]
  ELSE IF isArray(value, d.heap) THEN ArrayValues(d.heap[value.n], TRUE, <<>>)
  ELSE IF isMap(value, d.heap) THEN MapValues(d.heap[value.n], <<>>, d.ord)
  ELSE <<>>

RECURSIVE RecurseFrom(_, _, _)
\* the values the iterator returns from a state (stack, rest of the upstream)
RecurseFrom(stack, it, d) ==
  IF Len(stack) > 0
  THEN LET value == stack[Len(stack)]
       IN <<value>> \o RecurseFrom(SubSeq(stack, 1, Len(stack) - 1) \o children(value, d), it, d)
  ELSE IF it = <<>> THEN <<>>
  ELSE <<Head(it)>> \o RecurseFrom(children(Head(it), d), Tail(it), d)

RecurseValues(it, d) == RecurseFrom(<<>>, it, d)

\* ------------------------------------------------------------------ lexemes
\* a lexeme of a path: its type, the child name, the bracket names, the subscript,
\* the filter parse tree
Lx(typ, val, names, sub, flt) == [typ |-> typ, val |-> val, names |-> names, sub |-> sub, flt |-> flt]
NoFilter == [typ |-> "nil", lit |-> [typ |-> "null", n |-> 0, s |-> "null"], sub |-> <<>>, kids |-> <<>>]
lexemeRoot == Lx("root", "$", <<>>, <<>>, NoFilter)
lexemeDotChild(name) == Lx("dotChild", name, <<>>, <<>>, NoFilter)
lexemeUndottedChild(name) == Lx("undottedChild", name, <<>>, <<>>, NoFilter)
lexemeBracketChild(names) == Lx("bracketChild", "", names, <<>>, NoFilter)
lexemeArraySubscript(sub) == Lx("arraySubscript", "", <<>>, sub, NoFilter)
lexemeRecursiveDescent(name) == Lx("recursiveDescent", name, <<>>, <<>>, NoFilter)
lexemeFilterBegin(flt) == Lx("filter", "", <<>>, <<>>, flt)
lexemeRecursiveFilterBegin(flt) == Lx("recursiveFilter", "", <<>>, <<>>, flt)
lexemePropertyName(name) == Lx("propertyName", name, <<>>, <<>>, NoFilter)
lexemeBracketPropertyName(names) == Lx("bracketPropertyName", "", names, <<>>, NoFilter)
lexemeArraySubscriptPropertyName(sub) == Lx("arraySubscriptPropertyName", "", <<>>, sub, NoFilter)

\* a node of the filter parse tree
FilterNode(typ, lit, sub, kids) == [typ |-> typ, lit |-> lit, sub |-> sub, kids |-> kids]

\* ------------------------------------------------------------------ typed values
typedValue(typ, n, s) == [typ |-> typ, n |-> n, s |-> s]

typedValueOfNode(value) ==
  CASE value.t = "null" -> typedValue("null", 0, "null")
    [] value.t = "bool" -> typedValue("boolean", 0, IF value.n = 1 THEN "true" ELSE "false")
    [] value.t = "string" -> typedValue("string", 0, value.s)
    [] value.t = "int" -> typedValue("int", value.n, "")
    [] OTHER -> typedValue("unknown", 0, "")

\* values(it)
values(it) == [j \in 1..Len(it) |-> typedValueOfNode(it[j])]

isNumeric(vt) == vt \in {"int", "float"}

compatibleWith(vt, vt2) ==
  \/ isNumeric(vt) /\ isNumeric(vt2)
  \/ vt = vt2
  \/ vt = "string" /\ vt2 = "regex"

\* the outcome of comparing two scalars
compareNodeValues(l, r) ==
  IF isNumeric(l.typ) /\ isNumeric(r.typ)
  THEN (IF l.n < r.n THEN "compareLessThan" ELSE IF l.n > r.n THEN "compareGreaterThan" ELSE "compareEqual")
  ELSE IF l.s = r.s THEN "compareEqual" ELSE "compareIncomparable"

\* lexeme.comparator(): the comparison outcomes an operator accepts
comparator(op, c) ==
  CASE op = "==" -> c = "compareEqual"
    [] op = "!=" -> c \in {"compareLessThan", "compareGreaterThan"}
    [] op = ">" -> c = "compareGreaterThan"
    [] op = ">=" -> c \in {"compareGreaterThan", "compareEqual"}
    [] op = "<" -> c = "compareLessThan"
    [] op = "<=" -> c \in {"compareLessThan", "compareEqual"}
    [] OTHER -> FALSE

equalBooleans(l, r) == l = r
equalNulls(l, r) == TRUE

\* the accept function comparisonFilter hands to nodeToFilter
comparisonAccept(op, l, r) ==
  IF ~compatibleWith(l.typ, r.typ) THEN comparator(op, "compareIncomparable")
  ELSE IF l.typ = "boolean"
  THEN comparator(op, IF equalBooleans(l.s, r.s) THEN "compareEqual" ELSE "compareIncomparable")
  ELSE IF l.typ = "null"
  THEN comparator(op, IF equalNulls(l.s, r.s) THEN "compareEqual" ELSE "compareIncomparable")
  ELSE comparator(op, compareNodeValues(l, r))

\* a regular expression is a literal one-letter pattern here, a subject one letter, so
\* that Go's unanchored match is equality of the two letters
stringMatchesRegularExpression(s, expr) ==
  IF s.typ # "string" \/ expr.typ # "regex" THEN FALSE ELSE s.s = expr.s

\* the scalar test of a comparison or match node
accept(op, l, r) ==
  IF op = "=~" THEN stringMatchesRegularExpression(l, r) ELSE comparisonAccept(op, l, r)

ComparisonOps == {"==", "!=", "<", "<=", ">", ">="}

\* ------------------------------------------------------------------ path.go
\* a path that counts every rest as terminal
terminalAlways(path) == TRUE

\* Path.terminal of the compiled rest of a path: true for the identity / EOF node only
terminal(path) == path = <<>>

\* the keys (or indexes) as capsules of one operation
setExpressions(owner, keys) == [j \in 1..Len(keys) |-> setExpression(owner, keys[j], -1)]
deleteExpressions(owner, keys) == [j \in 1..Len(keys) |-> deleteExpression(owner, keys[j], -1)]
\* the capsules of all indexes but the first
setIndexExpressionsButFirst(owner, idx) ==
  [j \in 1..(Len(idx) - 1) |-> setExpression(owner, "", idx[j + 1])]
setIndexExpressions(owner, idx) == [j \in 1..Len(idx) |-> setExpression(owner, "", idx[j])]
deleteIndexExpressions(owner, idx) == [j \in 1..Len(idx) |-> deleteExpression(owner, "", idx[j])]

RECURSIVE Eval(_, _, _, _, _)
RECURSIVE newFilter(_, _, _, _)

\* evaluate path expression for all values in iterator
compose(operation, it, path, root, d) ==
  Concat([j \in 1..Len(it) |-> Eval(path, operation, it[j], root, d)])

\* an identity that yields nothing
identityYieldingNothing(operation, value, root) == FromValues(FALSE, <<>>)

identity(operation, value, root) == FromValues(FALSE, <<value>>)

empty(operation, value, root) == FromValues(FALSE, <<>>)

\* a property-name child that yields the value under the name, as the child segment does
propertyNameChildThenYieldingValue(childName, path, operation, value, root, d) ==
  IF isNativeMap(value, d.heap)
  THEN (IF hasKey(d.heap[value.n], childName)
        THEN compose(operation, FromValues(FALSE, <<d.heap[value.n].m[childName]>>), path, root, d)
        ELSE empty(operation, value, root))
  ELSE IF isMap(value, d.heap)
  THEN compose(operation, MapValues(d.heap[value.n], <<childName>>, d.ord), path, root, d)
  ELSE empty(operation, value, root)

propertyNameChildThen(childName, path, operation, value, root, d) ==
  IF isNativeMap(value, d.heap)
  THEN (IF hasKey(d.heap[value.n], childName)
        THEN compose(operation, FromValues(FALSE, <<StrV(childName)>>), path, root, d)
        ELSE empty(operation, value, root))
  ELSE IF isMap(value, d.heap)
  THEN compose(operation, MapKeys(d.heap[value.n], <<childName>>, d.ord), path, root, d)
  ELSE empty(operation, value, root)

propertyNameBracketChildThen(unquotedChildren, path, operation, value, root, d) ==
  IF isNativeMap(value, d.heap)
  THEN LET present == SelectSeq(unquotedChildren, LAMBDA k : hasKey(d.heap[value.n], k))
       IN compose(operation, [j \in 1..Len(present) |-> StrV(present[j])], path, root, d)
  ELSE IF isMap(value, d.heap) /\ Len(unquotedChildren) > 0
  THEN compose(operation, MapKeys(d.heap[value.n], unquotedChildren, d.ord), path, root, d)
  ELSE empty(operation, value, root)

bracketChildThen(unquotedChildren, path, operation, value, root, d) ==
  IF isNativeMap(value, d.heap)
  THEN LET v == d.heap[value.n]
           present == SelectSeq(unquotedChildren, LAMBDA k : hasKey(v, k))
       IN IF terminal(path) /\ operation = setOperation
          THEN FromValues(FALSE, setExpressions(value.n, unquotedChildren))
          ELSE IF terminal(path) /\ operation = deleteOperation
          THEN FromValues(FALSE, deleteExpressions(value.n, unquotedChildren))
          ELSE compose(operation, [j \in 1..Len(present) |-> v.m[present[j]]], path, root, d)
  ELSE IF isMap(value, d.heap)
  THEN LET v == d.heap[value.n]
       IN IF terminal(path) /\ operation = setOperation
          THEN FromValues(FALSE, setExpressions(value.n, unquotedChildren))
          ELSE IF terminal(path) /\ operation = deleteOperation
          THEN FromValues(FALSE, deleteExpressions(value.n, unquotedChildren))
          ELSE IF Len(unquotedChildren) > 0
          THEN compose(operation, MapValues(v, unquotedChildren, d.ord), path, root, d)
          ELSE empty(operation, value, root)
  ELSE empty(operation, value, root)

\* the map cases shared by allChildrenThen and the wildcard subscript
allOfMap(path, operation, value, root, d) ==
  LET v == d.heap[value.n]
      keys == loopMap(v, d.ord)
  IN IF terminal(path) /\ operation = setOperation
     THEN FromValues(FALSE, setExpressions(value.n, keys))
     ELSE IF terminal(path) /\ operation = deleteOperation
     THEN FromValues(FALSE, deleteExpressions(value.n, keys))
     ELSE IF v.cap
     THEN compose(operation, MapValues(v, <<>>, d.ord), path, root, d)
     ELSE FromIterators([j \in 1..Len(keys) |->
                           compose(operation, FromValues(FALSE, <<v.m[keys[j]]>>), path, root, d)])

allChildrenThen(path, operation, value, root, d) ==
  IF isMapLike(value, d.heap) THEN allOfMap(path, operation, value, root, d)
  ELSE IF isArrayLike(value, d.heap)
  THEN LET v == d.heap[value.n]
           length == Len(v.e)
       IN IF terminal(path) /\ operation = setOperation
          THEN FromValues(FALSE, setIndexExpressions(value.n, [j \in 1..length |-> j - 1]))
          ELSE IF terminal(path) /\ operation = deleteOperation
          THEN FromValues(FALSE, deleteIndexExpressions(value.n, [j \in 1..length |-> j - 1]))
          ELSE IF v.cap
          THEN compose(operation, ArrayValues(v, FALSE, <<>>), path, root, d)
          ELSE compose(operation, FromValues(FALSE, v.e), path, root, d)
  ELSE empty(operation, value, root)

arraySubscriptThen(subscript, path, operation, value, root, d) ==
  IF isWildcard(subscript) /\ ~isArrayLike(value, d.heap)
  THEN (IF isMapLike(value, d.heap) THEN allOfMap(path, operation, value, root, d)
        ELSE empty(operation, value, root))
  ELSE IF isArrayLike(value, d.heap)
  THEN LET v == d.heap[value.n]
           sl == slice(subscript, Len(v.e))
           inRange == SelectSeq(sl.idx, LAMBDA x : x >= 0 /\ x < Len(v.e))
       IN IF sl.err THEN <<PanicV>>
          ELSE IF terminal(path) /\ operation = setOperation
          THEN FromValues(FALSE, setIndexExpressions(value.n, inRange))
          ELSE IF terminal(path) /\ operation = deleteOperation
          THEN FromValues(FALSE, deleteIndexExpressions(value.n, inRange))
          ELSE IF v.cap
          THEN (IF Len(sl.idx) > 0
                THEN compose(operation, ArrayValues(v, FALSE, sl.idx), path, root, d)
                ELSE empty(operation, value, root))
          ELSE FromIterators([j \in 1..Len(inRange) |->
                 compose(operation, FromValues(FALSE, <<v.e[inRange[j] + 1]>>), path, root, d)])
  ELSE empty(operation, value, root)

\* a filter that, as the last segment under set, hands out a capsule for every item of
\* an array that it accepts
filterThenSettingMatches(flt, path, operation, value, root, d) ==
  IF isArrayLike(value, d.heap)
  THEN LET v == d.heap[value.n]
       IN FromIterators([j \in 1..Len(v.e) |->
            IF newFilter(flt, v.e[j], root, d)
            THEN (IF terminal(path) /\ operation = setOperation
                  THEN FromValues(FALSE, <<setExpression(value.n, "", j - 1)>>)
                  ELSE compose(operation, FromValues(FALSE, <<v.e[j]>>), path, root, d))
            ELSE <<>>])
  ELSE IF newFilter(flt, value, root, d)
  THEN compose(operation, FromValues(FALSE, <<value>>), path, root, d)
  ELSE empty(operation, value, root)

filterThen(flt, path, operation, value, root, d) ==
  IF isArrayLike(value, d.heap)
  THEN LET v == d.heap[value.n]
       IN FromIterators([j \in 1..Len(v.e) |->
            IF newFilter(flt, v.e[j], root, d)
            THEN compose(operation, FromValues(FALSE, <<v.e[j]>>), path, root, d)
            ELSE <<>>])
  ELSE IF newFilter(flt, value, root, d)
  THEN compose(operation, FromValues(FALSE, <<value>>), path, root, d)
  ELSE empty(operation, value, root)

recursiveFilterThen(flt, path, operation, value, root, d) ==
  IF newFilter(flt, value, root, d)
  THEN compose(operation, FromValues(FALSE, <<value>>), path, root, d)
  ELSE empty(operation, value, root)

propertyNameArraySubscriptThen(subscript, path, operation, value, root, d) ==
  IF isWildcard(subscript) /\ isNativeMap(value, d.heap)
  THEN LET keys == loopMap(d.heap[value.n], d.ord)
       IN FromIterators([j \in 1..Len(keys) |->
            compose(operation, FromValues(FALSE, <<StrV(keys[j])>>), path, root, d)])
  ELSE IF isWildcard(subscript) /\ isMap(value, d.heap)
  THEN compose(operation, MapKeys(d.heap[value.n], <<>>, d.ord), path, root, d)
  ELSE empty(operation, value, root)

\* evaluateArrayItems that hands only the items of an array to the rest of the path
evaluateArrayItemsOnly(mv, path, operation, root, d) ==
  IF isNativeSlice(mv, d.heap)
  THEN compose(operation, FromValues(FALSE, d.heap[mv.n].e), path, root, d)
  ELSE IF isArray(mv, d.heap)
  THEN compose(operation, ArrayValues(d.heap[mv.n], FALSE, <<>>), path, root, d)
  ELSE compose(operation, FromValues(FALSE, <<mv>>), path, root, d)

\* evaluateArrayItems of childThen
evaluateArrayItems(mv, path, operation, root, d) ==
  IF isNativeSlice(mv, d.heap)
  THEN FromIterators(<<compose(operation, FromValues(FALSE, <<mv>>), path, root, d),
                       compose(operation, FromValues(FALSE, d.heap[mv.n].e), path, root, d)>>)
  ELSE IF isArray(mv, d.heap)
  THEN FromIterators(<<compose(operation, FromValues(FALSE, <<mv>>), path, root, d),
                       compose(operation, ArrayValues(d.heap[mv.n], FALSE, <<>>), path, root, d)>>)
  ELSE compose(operation, FromValues(FALSE, <<mv>>), path, root, d)

\* childThen that substitutes null for every candidate without the child, map-like or not
childThenNullForAnyCandidate(childName, path, recursive, operation, value, root, d) ==
  IF childName = "*" THEN allChildrenThen(path, operation, value, root, d)
  ELSE LET mapLike == isMapLike(value, d.heap)
           o == IF mapLike THEN d.heap[value.n] ELSE Free
           found == IF ~mapLike THEN <<>>
                    ELSE IF o.cap THEN MapValues(o, <<childName>>, d.ord)
                    ELSE (IF hasKey(o, childName) THEN <<o.m[childName]>> ELSE <<>>)
       IN IF mapLike /\ terminal(path) /\ operation = setOperation
          THEN FromValues(FALSE, <<setExpression(value.n, childName, -1)>>)
          ELSE IF mapLike /\ terminal(path) /\ operation = deleteOperation
          THEN FromValues(FALSE, <<deleteExpression(value.n, childName, -1)>>)
          ELSE IF Len(found) > 0
          THEN (IF recursive /\ ~terminal(path)
                THEN evaluateArrayItems(found[1], path, operation, root, d)
                ELSE compose(operation, FromValues(FALSE, <<found[1]>>), path, root, d))
          ELSE IF d.returnNullForMissingLeaf /\ terminal(path)
          THEN FromValues(FALSE, <<NullV>>)
          ELSE empty(operation, value, root)

\* childThen that substitutes null for a missing child wherever it stands in the path
childThenNullBeforeLeaf(childName, path, recursive, operation, value, root, d) ==
  IF childName = "*" THEN allChildrenThen(path, operation, value, root, d)
  ELSE IF isMapLike(value, d.heap)
  THEN LET o == d.heap[value.n]
           found == IF o.cap THEN MapValues(o, <<childName>>, d.ord)
                    ELSE (IF hasKey(o, childName) THEN <<o.m[childName]>> ELSE <<>>)
       IN IF terminal(path) /\ operation = setOperation
          THEN FromValues(FALSE, <<setExpression(value.n, childName, -1)>>)
          ELSE IF terminal(path) /\ operation = deleteOperation
          THEN FromValues(FALSE, <<deleteExpression(value.n, childName, -1)>>)
          ELSE IF Len(found) > 0
          THEN (IF recursive /\ ~terminal(path)
                THEN evaluateArrayItems(found[1], path, operation, root, d)
                ELSE compose(operation, FromValues(FALSE, <<found[1]>>), path, root, d))
          ELSE IF d.returnNullForMissingLeaf
          THEN FromValues(FALSE, <<NullV>>)
          ELSE empty(operation, value, root)
  ELSE empty(operation, value, root)

childThen(childName, path, recursive, operation, value, root, d) ==
  IF childName = "*" THEN allChildrenThen(path, operation, value, root, d)
  ELSE IF isMapLike(value, d.heap)
  THEN LET o == d.heap[value.n]
           found == IF o.cap THEN MapValues(o, <<childName>>, d.ord)
                    ELSE (IF hasKey(o, childName) THEN <<o.m[childName]>> ELSE <<>>)
       IN IF terminal(path) /\ operation = setOperation
          THEN FromValues(FALSE, <<setExpression(value.n, childName, -1)>>)
          ELSE IF terminal(path) /\ operation = deleteOperation
          THEN FromValues(FALSE, <<deleteExpression(value.n, childName, -1)>>)
          ELSE IF Len(found) > 0
          THEN (IF recursive /\ ~terminal(path)
                THEN evaluateArrayItems(found[1], path, operation, root, d)
                ELSE compose(operation, FromValues(FALSE, <<found[1]>>), path, root, d))
          ELSE IF d.returnNullForMissingLeaf /\ terminal(path)
          THEN FromValues(FALSE, <<NullV>>)
          ELSE empty(operation, value, root)
  ELSE empty(operation, value, root)

\* the expression createPath builds for a recursive descent lexeme
recursiveDescent(childName, path, operation, value, root, d) ==
  LET it == RecurseValues(FromValues(FALSE, <<value>>), d)
  IN IF childName = "*"
     THEN Concat([j \in 1..Len(it) |-> allChildrenThen(path, operation, it[j], root, d)])
     ELSE IF childName = ""
     THEN compose(operation, it, path, root, d)
     ELSE Concat([j \in 1..Len(it) |-> childThen(childName, path, TRUE, operation, it[j], root, d)])

\* Path.expression of the path compiled from the lexemes p
Eval(p, operation, value, root, d) ==
  IF p = <<>> THEN identity(operation, value, root)
  ELSE LET token == Head(p)
           subPath == Tail(p)
       IN CASE token.typ = "root" ->
                 compose(operation, FromValues(FALSE, <<value>>), subPath, root, d)
            [] token.typ = "recursiveDescent" ->
                 recursiveDescent(token.val, subPath, operation, value, root, d)
            [] token.typ \in {"dotChild", "undottedChild"} ->
                 childThen(token.val, subPath, FALSE, operation, value, root, d)
            [] token.typ = "bracketChild" ->
                 bracketChildThen(token.names, subPath, operation, value, root, d)
            [] token.typ = "arraySubscript" ->
                 arraySubscriptThen(token.sub, subPath, operation, value, root, d)
            [] token.typ = "filter" ->
                 filterThen(token.flt, subPath, operation, value, root, d)
            [] token.typ = "recursiveFilter" ->
                 recursiveFilterThen(token.flt, subPath, operation, value, root, d)
            [] token.typ = "propertyName" ->
                 propertyNameChildThen(token.val, subPath, operation, value, root, d)
            [] token.typ = "bracketPropertyName" ->
                 propertyNameBracketChildThen(token.names, subPath, operation, value, root, d)
            [] token.typ = "arraySubscriptPropertyName" ->
                 propertyNameArraySubscriptThen(token.sub, subPath, operation, value, root, d)
            [] OTHER -> <<>>

\* ------------------------------------------------------------------ filter.go
\* the scanner of an @ or $ term: its sub path is compiled by NewPath with a default
\* context and evaluated with the candidate, or the root, as value and as root
pathFilterScanner(node, value, root, d) ==
  LET nd == [d EXCEPT !.returnNullForMissingLeaf = FALSE]
  IN IF node.typ = "at"
     THEN values(Eval(node.sub, getOperation, value, value, nd))
     ELSE values(Eval(node.sub, getOperation, root, root, nd))

literalFilterScanner(node, value, root) == <<node.lit>>

emptyScanner(value, root) == <<>>

newFilterScanner(node, value, root, d) ==
  CASE node.typ = "nil" -> emptyScanner(value, root)
    [] node.typ \in {"at", "root"} -> pathFilterScanner(node, value, root, d)
    [] node.typ = "literal" -> literalFilterScanner(node, value, root)
    [] OTHER -> emptyScanner(value, root)

RECURSIVE setWise(_, _, _, _, _, _)
\* the two nested loops of the filter nodeToFilter returns, at l = lhs[i], r = rhs[j]
setWise(op, lhs, rhs, i, j, match) ==
  IF i > Len(lhs) THEN match
  ELSE IF j > Len(rhs) THEN setWise(op, lhs, rhs, i + 1, 1, match)
  ELSE IF ~accept(op, lhs[i], rhs[j]) THEN FALSE
  ELSE setWise(op, lhs, rhs, i, j + 1, TRUE)

\* nodeToFilter with match starting out true
nodeToFilterMatchInitiallyTrue(node, value, root, d) ==
  setWise(node.typ,
          newFilterScanner(node.kids[1], value, root, d),
          newFilterScanner(node.kids[2], value, root, d), 1, 1, TRUE)

nodeToFilter(node, value, root, d) ==
  setWise(node.typ,
          newFilterScanner(node.kids[1], value, root, d),
          newFilterScanner(node.kids[2], value, root, d), 1, 1, FALSE)

never(value, root) == FALSE

newFilter(node, value, root, d) ==
  CASE node.typ = "nil" -> never(value, root)
    [] node.typ \in {"at", "root"} -> Len(pathFilterScanner(node, value, root, d)) > 0
    [] node.typ \in ComparisonOps -> nodeToFilter(node, value, root, d)
    [] node.typ = "=~" -> nodeToFilter(node, value, root, d)
    [] node.typ = "not" -> ~newFilter(node.kids[1], value, root, d)
    [] node.typ = "or" -> newFilter(node.kids[1], value, root, d) \/ newFilter(node.kids[2], value, root, d)
    [] node.typ = "and" -> newFilter(node.kids[1], value, root, d) /\ newFilter(node.kids[2], value, root, d)
    [] node.typ = "bool" -> node.lit.s = "true"
    [] OTHER -> never(value, root)

\* ------------------------------------------------------------------ createPath
\* type pathContext
pathContext(definite, returnNullForMissingLeaf, returnList) ==
  [definite |-> definite, returnNullForMissingLeaf |-> returnNullForMissingLeaf, returnList |-> returnList]

\* strings.Contains(subscript, ",") || strings.Contains(subscript, ":")
isUnionOrRange(sub) == Len(sub) > 1 \/ \E j \in 1..Len(sub) : Len(sub[j].parts) > 1

\* what createPath does to the context at a lexeme before it compiles the sub path
enterLexeme(ctx, token) ==
  IF token.typ \in {"recursiveDescent", "filter", "recursiveFilter"}
  THEN [ctx EXCEPT !.definite = FALSE]
  ELSE ctx

\* what the ...Then constructor of a lexeme does to the context, the sub path compiled
leaveLexeme(ctx, token) ==
  CASE token.typ \in {"bracketChild", "bracketPropertyName"} ->
         IF Len(token.names) > 1 THEN [ctx EXCEPT !.definite = FALSE] ELSE ctx
    [] token.typ = "arraySubscript" ->
         IF isWildcard(token.sub) \/ isUnionOrRange(token.sub)
         THEN [ctx EXCEPT !.definite = FALSE] ELSE ctx
    [] token.typ = "arraySubscriptPropertyName" ->
         IF isWildcard(token.sub) THEN [ctx EXCEPT !.definite = FALSE] ELSE ctx
    [] OTHER -> ctx

RECURSIVE createPath(_, _)
\* the context after createPath has compiled the lexemes p
createPath(ctx, p) ==
  IF p = <<>> THEN ctx
  ELSE leaveLexeme(createPath(enterLexeme(ctx, Head(p)), Tail(p)), Head(p))

\* ------------------------------------------------------------------ capsules
\* a setExpression that writes to keys the map already has only
invokeSetOnExistingKey(c, value, h) ==
  IF h[c.n].kind = "map"
  THEN (IF hasKey(h[c.n], c.s) THEN [h EXCEPT ![c.n].m[c.s] = value] ELSE h)
  ELSE [h EXCEPT ![c.n].e[c.i + 1] = value]

\* a setExpression that stores a fresh map holding its key only
invokeSetOnFreshMap(c, value, h) ==
  IF h[c.n].kind = "map"
  THEN [h EXCEPT ![c.n].m = [k \in KeyNames |-> IF k = c.s THEN value ELSE Absent]]
  ELSE [h EXCEPT ![c.n].e[c.i + 1] = value]

\* a setExpression invoked with a value
invokeSet(c, value, h) ==
  IF h[c.n].kind = "map" THEN [h EXCEPT ![c.n].m[c.s] = value]
  ELSE [h EXCEPT ![c.n].e[c.i + 1] = value]

\* a deleteExpression that blanks the element of an array and reports nothing
invokeDeleteOnArraysToo(c, h) ==
  IF h[c.n].kind = "map"
  THEN [heap |-> [h EXCEPT ![c.n].m[c.s] = Absent], err |-> "nil"]
  ELSE [heap |-> [h EXCEPT ![c.n].e[c.i + 1] = NullV], err |-> "nil"]

\* a deleteExpression invoked: the heap after it and the error it returns
invokeDelete(c, h) ==
  IF h[c.n].kind = "map"
  THEN [heap |-> [h EXCEPT ![c.n].m[c.s] = Absent], err |-> "nil"]
  ELSE IF h[c.n].cap
  THEN [heap |-> h, err |-> "delete is not supported on arrays"]
  ELSE [heap |-> h, err |-> "delete is not supported on slices"]

\* ------------------------------------------------------------------ Get
Returned(kind, v, l) == [kind |-> kind, v |-> v, l |-> l]

\* a Get that hands back nil or the bare value only when the path is definite and
\* the list is asked for
GetReturnUnwrapsOnReturnList(ctx, result) ==
  IF \E j \in 1..Len(result) : result[j] = PanicV THEN Returned("panic", NullV, <<>>)
  ELSE IF ~ctx.returnList THEN Returned("list", NullV, result)
  ELSE IF ctx.definite
  THEN (IF Len(result) = 0 THEN Returned("nil", NullV, <<>>)
        ELSE IF Len(result) = 1 THEN Returned("value", result[1], <<>>)
        ELSE Returned("list", NullV, result))
  ELSE Returned("list", NullV, result)

\* what Get returns for the list of matches
GetReturn(ctx, result) ==
  IF \E j \in 1..Len(result) : result[j] = PanicV THEN Returned("panic", NullV, <<>>)
  ELSE IF ctx.returnList THEN Returned("list", NullV, result)
  ELSE IF ctx.definite
  THEN (IF Len(result) = 0 THEN Returned("nil", NullV, <<>>)
        ELSE IF Len(result) = 1 THEN Returned("value", result[1], <<>>)
        ELSE Returned("list", NullV, result))
  ELSE Returned("list", NullV, result)

\* ------------------------------------------------------------------ inputs
\* the paths of the model, each as the lexemes the lexer gives for its text
NoLit == [typ |-> "null", n |-> 0, s |-> "null"]
At(sub) == FilterNode("at", NoLit, sub, <<>>)
Dollar(sub) == FilterNode("root", NoLit, sub, <<>>)
Literal(tv) == FilterNode("literal", tv, <<>>, <<>>)
Compare(op, l, r) == FilterNode(op, NoLit, <<>>, <<l, r>>)
Index(n) == <<Member(<<Num(n)>>)>>
Star == <<Wild>>

Paths ==
  << [text |-> "",            p |-> <<>>],
     [text |-> "$",           p |-> <<lexemeRoot>>],
     [text |-> "$.a",         p |-> <<lexemeRoot, lexemeDotChild("a")>>],
     [text |-> "$.b",         p |-> <<lexemeRoot, lexemeDotChild("b")>>],
     [text |-> "$.*",         p |-> <<lexemeRoot, lexemeDotChild("*")>>],
     [text |-> "$[*]",        p |-> <<lexemeRoot, lexemeArraySubscript(Star)>>],
     [text |-> "$['a']",      p |-> <<lexemeRoot, lexemeBracketChild(<<"a">>)>>],
     [text |-> "$['a','b']",  p |-> <<lexemeRoot, lexemeBracketChild(<<"a", "b">>)>>],
     [text |-> "$[0]",        p |-> <<lexemeRoot, lexemeArraySubscript(Index(0))>>],
     [text |-> "$[-1]",       p |-> <<lexemeRoot, lexemeArraySubscript(Index(-1))>>],
     [text |-> "$[1,0]",      p |-> <<lexemeRoot, lexemeArraySubscript(Index(1) \o Index(0))>>],
     [text |-> "$[0:2]",      p |-> <<lexemeRoot, lexemeArraySubscript(<<Member(<<Num(0), Num(2)>>)>>)>>],
     [text |-> "$..a",        p |-> <<lexemeRoot, lexemeRecursiveDescent("a")>>],
     [text |-> "$..*",        p |-> <<lexemeRoot, lexemeRecursiveDescent("*")>>],
     [text |-> "$..[0]",      p |-> <<lexemeRoot, lexemeRecursiveDescent(""), lexemeArraySubscript(Index(0))>>],
     [text |-> "$.a.b",       p |-> <<lexemeRoot, lexemeDotChild("a"), lexemeDotChild("b")>>],
     [text |-> "$.a[0]",      p |-> <<lexemeRoot, lexemeDotChild("a"), lexemeArraySubscript(Index(0))>>],
     [text |-> "$.a.*",       p |-> <<lexemeRoot, lexemeDotChild("a"), lexemeDotChild("*")>>],
     [text |-> "$[*].a",      p |-> <<lexemeRoot, lexemeArraySubscript(Star), lexemeDotChild("a")>>],
     [text |-> "$[?(@.a)]",   p |-> <<lexemeRoot, lexemeFilterBegin(At(<<lexemeDotChild("a")>>))>>],
     [text |-> "$.a[?(@>1)]", p |-> <<lexemeRoot, lexemeDotChild("a"),
                                      lexemeFilterBegin(Compare(">", At(<<>>), Literal(typedValue("int", 1, ""))))>>],
     [text |-> "$..[?(@.b)]", p |-> <<lexemeRoot, lexemeRecursiveFilterBegin(At(<<lexemeDotChild("b")>>))>>],
     [text |-> "$.a~",        p |-> <<lexemeRoot, lexemePropertyName("a")>>],
     [text |-> "$['a','b']~", p |-> <<lexemeRoot, lexemeBracketPropertyName(<<"a", "b">>)>>],
     [text |-> "$[*]~",       p |-> <<lexemeRoot, lexemeArraySubscriptPropertyName(Star)>>],
     [text |-> "$[0]~",       p |-> <<lexemeRoot, lexemeArraySubscriptPropertyName(Index(0))>>],
     [text |-> "a",           p |-> <<lexemeUndottedChild("a")>>],
     [text |-> "*",           p |-> <<lexemeUndottedChild("*")>>],
     [text |-> "$..a.b",      p |-> <<lexemeRoot, lexemeRecursiveDescent("a"), lexemeDotChild("b")>>],
     [text |-> "$..a[0]",     p |-> <<lexemeRoot, lexemeRecursiveDescent("a"), lexemeArraySubscript(Index(0))>>],
     [text |-> "$[?(@[?($.a)])]",
      p |-> <<lexemeRoot,
              lexemeFilterBegin(At(<<lexemeFilterBegin(Dollar(<<lexemeDotChild("a")>>))>>))>>] >>

PathIds == 1..Len(Paths)

\* the index of the path with a given text
PathOf(text) == CHOOSE j \in PathIds : Paths[j].text = text

\* the documents: a heap of three containers and the root value
Scalars == {IntV(n) : n \in 1..MaxInt}
LeafMaps == [KeyNames -> {Absent} \cup Scalars]
LeafArrs == UNION {[1..n -> Scalars] : n \in 0..MaxLen}
Leaves(cap) == {MapObj(cap, m) : m \in LeafMaps} \cup {ArrObj(cap, e) : e \in LeafArrs}
SmallMaps == [KeyNames -> {Absent, IntV(1)}]
Doc(h, r) == [heap |-> h, root |-> r]

Docs ==
  UNION {
    \* a flat map or array
    {Doc(<<c, Free, Free>>, RefV(1)) : c \in Leaves(cap)}
    \* a map holding a container under a
    \cup {Doc(<<MapObj(cap, [k \in KeyNames |-> IF k = "a" THEN RefV(2) ELSE x]), c, Free>>, RefV(1)) :
            c \in Leaves(cap), x \in {Absent, IntV(1)}}
    \* an array holding a container first
    \cup {Doc(<<ArrObj(cap, <<RefV(2)>> \o [j \in 1..n |-> IntV(1)]), c, Free>>, RefV(1)) :
            c \in Leaves(cap), n \in 0..(MaxLen - 1)}
    \* an array of two maps
    \cup {Doc(<<ArrObj(cap, <<RefV(2), RefV(3)>>), MapObj(cap, m1), MapObj(cap, m2)>>, RefV(1)) :
            m1 \in SmallMaps, m2 \in SmallMaps}
    \* a map holding under a an array of one container
    \cup {Doc(<<MapObj(cap, [k \in KeyNames |-> IF k = "a" THEN RefV(2) ELSE Absent]),
                 ArrObj(cap, <<RefV(3)>>), c>>, RefV(1)) :
            c \in {MapObj(cap, m) : m \in SmallMaps} \cup {ArrObj(cap, <<IntV(1)>>)}}
    : cap \in BOOLEAN }
  \cup {Doc(<<Free, Free, Free>>, x) : x \in Scalars}

\* the values a Set call writes: none of them is in an initial document
SetValues == {IntV(0), NullV}

\* ------------------------------------------------------------------ state
VARIABLES
  heap,     \* the containers of the document
  root,     \* the value handed to Get / Set as data
  pc,       \* "idle", "got" (Get has returned), "invoking" (Set / Delete loops over its iterator)
  call,     \* the call in progress or just returned
  ctx,      \* its pathContext after createPath
  it,       \* the iterator path.expression returned, as the list of what it yields
  done,     \* how many elements of it the loop has pulled
  result,   \* what Get returned
  errs,     \* the errors the delete capsules of this call returned
  heap0,    \* the containers when the mutating call began
  last      \* the mutating call that has returned, or NoCall

vars == <<heap, root, pc, call, ctx, it, done, result, errs, heap0, last>>

Call(api, path, value, returnNullForMissingLeaf, returnList, ord) ==
  [api |-> api, path |-> path, value |-> value,
   returnNullForMissingLeaf |-> returnNullForMissingLeaf, returnList |-> returnList, ord |-> ord]
NoCall == Call("none", 1, NullV, FALSE, FALSE, <<>>)
NoReturn == Returned("none", NullV, <<>>)
NoContext == pathContext(TRUE, FALSE, FALSE)

\* the environment of one evaluation: the document, this run's map iteration order, the option
Env(h, c) == [heap |-> h, ord |-> c.ord, returnNullForMissingLeaf |-> c.returnNullForMissingLeaf]

Init ==
  /\ \E doc \in Docs : heap = doc.heap /\ root = doc.root
  /\ pc = "idle"
  /\ call = NoCall
  /\ ctx = NoContext
  /\ it = <<>>
  /\ done = 0
  /\ result = NoReturn
  /\ errs = <<>>
  /\ heap0 = heap
  /\ last = NoCall

\* Get(data, expression, options...): compile, evaluate, collect, return
Get(path, rnl, rl, ord) ==
  /\ pc = "idle"
  /\ last.api # "none" => (last.api = "Set" /\ path = last.path /\ ~rnl /\ ~rl)
  /\ call' = Call("Get", path, NullV, rnl, rl, ord)
  /\ ctx' = createPath(pathContext(TRUE, rnl, rl), Paths[path].p)
  /\ it' = Eval(Paths[path].p, getOperation, root, root, Env(heap, call'))
  /\ result' = GetReturn(ctx', it')
  /\ done' = Len(it')
  /\ pc' = "got"
  /\ UNCHANGED <<heap, root, errs, heap0, last>>

\* the caller takes Get's result
Return ==
  /\ pc = "got"
  /\ pc' = "idle"
  /\ call' = NoCall
  /\ ctx' = NoContext
  /\ it' = <<>>
  /\ done' = 0
  /\ result' = NoReturn
  /\ UNCHANGED <<heap, root, errs, heap0, last>>

\* Set(data, expression, value): compile and evaluate; the iterator holds every capsule
Set(path, value, ord) ==
  /\ pc = "idle"
  /\ last.api = "none"
  /\ call' = Call("Set", path, value, FALSE, FALSE, ord)
  /\ ctx' = createPath(pathContext(TRUE, FALSE, FALSE), Paths[path].p)
  /\ it' = Eval(Paths[path].p, setOperation, root, root, Env(heap, call'))
  /\ done' = 0
  /\ heap0' = heap
  /\ pc' = "invoking"
  /\ UNCHANGED <<heap, root, result, errs, last>>

\* an iterator that walks the document only when the loop pulls its next element
PulledFromLazyWalk ==
  LET operation == IF call.api = "Set" THEN setOperation ELSE deleteOperation
      now == Eval(Paths[call.path].p, operation, root, root, Env(heap, call))
  IN IF done + 1 <= Len(now) THEN now[done + 1] ELSE NullV

\* the element the loop of Set / Delete pulls next
Pulled == it[done + 1]

\* one turn of the loop of Set: a setExpression is invoked, anything else skipped
SetNext ==
  /\ pc = "invoking"
  /\ call.api = "Set"
  /\ done < Len(it)
  /\ heap' = IF Pulled.t = "set" THEN invokeSet(Pulled, call.value, heap) ELSE heap
  /\ done' = done + 1
  /\ UNCHANGED <<root, pc, call, ctx, it, result, errs, heap0, last>>

\* the delete call: as Set, with the delete operation
Delete(path, ord) ==
  /\ pc = "idle"
  /\ last.api = "none"
  /\ call' = Call("Delete", path, NullV, FALSE, FALSE, ord)
  /\ ctx' = createPath(pathContext(TRUE, FALSE, FALSE), Paths[path].p)
  /\ it' = Eval(Paths[path].p, deleteOperation, root, root, Env(heap, call'))
  /\ done' = 0
  /\ heap0' = heap
  /\ pc' = "invoking"
  /\ UNCHANGED <<heap, root, result, errs, last>>

\* one turn of the loop of the delete call
DeleteNext ==
  /\ pc = "invoking"
  /\ call.api = "Delete"
  /\ done < Len(it)
  /\ heap' = IF Pulled.t = "delete" THEN invokeDelete(Pulled, heap).heap ELSE heap
  /\ errs' = IF Pulled.t = "delete" THEN Append(errs, invokeDelete(Pulled, heap).err) ELSE errs
  /\ done' = done + 1
  /\ UNCHANGED <<root, pc, call, ctx, it, result, heap0, last>>

\* the iterator is exhausted: the mutating call returns
Finish ==
  /\ pc = "invoking"
  /\ done = Len(it)
  /\ last' = call
  /\ pc' = "idle"
  /\ call' = NoCall
  /\ ctx' = NoContext
  /\ UNCHANGED <<heap, root, it, done, result, errs, heap0>>

Next ==
  \/ \E path \in PathIds, rnl \in BOOLEAN, rl \in BOOLEAN, ord \in Orders : Get(path, rnl, rl, ord)
  \/ Return
  \/ \E path \in PathIds, value \in SetValues, ord \in Orders : Set(path, value, ord)
  \/ SetNext
  \/ \E path \in PathIds, ord \in Orders : Delete(path, ord)
  \/ DeleteNext
  \/ Finish

Spec == Init /\ [][Next]_vars

\* ------------------------------------------------------------------ createPath, lexeme by lexeme
\* Get or Set creates the context, processes the options and calls createPath
Compile(api, path, rnl, rl) ==
  /\ pc = "idle"
  /\ call' = Call(api, path, NullV, rnl, rl, <<>>)
  /\ ctx' = pathContext(TRUE, rnl, rl)
  /\ done' = 0
  /\ pc' = "entering"
  /\ UNCHANGED <<heap, root, it, result, errs, heap0, last>>

\* createPath takes the next lexeme and, for the sub path, calls itself
Enter ==
  /\ pc = "entering"
  /\ done < Len(Paths[call.path].p)
  /\ ctx' = enterLexeme(ctx, Paths[call.path].p[done + 1])
  /\ done' = done + 1
  /\ UNCHANGED <<heap, root, pc, call, it, result, errs, heap0, last>>

\* the lexer is at its end: the innermost createPath returns the identity path
EndOfInput ==
  /\ pc = "entering"
  /\ done = Len(Paths[call.path].p)
  /\ pc' = "leaving"
  /\ UNCHANGED <<heap, root, call, ctx, it, done, result, errs, heap0, last>>

\* a createPath whose sub path is compiled builds its own path and returns
Leave ==
  /\ pc = "leaving"
  /\ done > 0
  /\ ctx' = leaveLexeme(ctx, Paths[call.path].p[done])
  /\ done' = done - 1
  /\ UNCHANGED <<heap, root, pc, call, it, result, errs, heap0, last>>

\* the outermost createPath has returned
Compiled ==
  /\ pc = "leaving"
  /\ done = 0
  /\ pc' = "compiled"
  /\ UNCHANGED <<heap, root, call, ctx, it, done, result, errs, heap0, last>>

\* the caller goes on to a next compilation
Forget ==
  /\ pc = "compiled"
  /\ pc' = "idle"
  /\ call' = NoCall
  /\ ctx' = NoContext
  /\ UNCHANGED <<heap, root, it, done, result, errs, heap0, last>>

InitCompile ==
  /\ heap = <<Free, Free, Free>>
  /\ root = IntV(1)
  /\ pc = "idle"
  /\ call = NoCall
  /\ ctx = NoContext
  /\ it = <<>>
  /\ done = 0
  /\ result = NoReturn
  /\ errs = <<>>
  /\ heap0 = heap
  /\ last = NoCall

NextCompile ==
  \/ \E api \in {"Get", "Set"}, path \in PathIds, rnl \in BOOLEAN, rl \in BOOLEAN : Compile(api, path, rnl, rl)
  \/ Enter
  \/ EndOfInput
  \/ Leave
  \/ Compiled
  \/ Forget

SpecCompile == InitCompile /\ [][NextCompile]_vars

\* ------------------------------------------------------------------ filters on their own
\* the comparison filters of the model: every operator over these pairs of terms
ItemsOf(name) == At(<<lexemeDotChild(name), lexemeArraySubscript(Star)>>)
One == Literal(typedValue("int", 1, ""))
Two == Literal(typedValue("int", 2, ""))
TermPairs ==
  << <<ItemsOf("a"), ItemsOf("b")>>,
     <<ItemsOf("a"), One>>,
     <<ItemsOf("a"), Two>>,
     <<Two, ItemsOf("b")>>,
     <<One, Two>>,
     <<Two, One>>,
     <<Two, Two>>,
     <<At(<<lexemeDotChild("a")>>), Dollar(<<lexemeDotChild("b")>>)>>,
     <<At(<<lexemeDotChild("a")>>), Literal(typedValue("string", 0, "a"))>>,
     <<At(<<lexemeDotChild("a")>>), Literal(typedValue("regex", 0, "a"))>>,
     <<ItemsOf("a"), Literal(typedValue("regex", 0, "a"))>>,
     <<Literal(typedValue("null", 0, "null")), At(<<lexemeDotChild("b")>>)>> >>
FilterOps == <<"==", "!=", "<", "<=", ">", ">=", "=~">>
FilterIds == (1..Len(FilterOps)) \X (1..Len(TermPairs))
FilterOf(id) == Compare(FilterOps[id[1]], TermPairs[id[2]][1], TermPairs[id[2]][2])

\* the candidates: a map whose a and b are arrays of scalars, or scalars
FilterScalars == {Absent, NullV, IntV(1), StrV("a"), StrV("b")}
FilterDocs ==
  {Doc(<<MapObj(FALSE, [k \in KeyNames |-> IF k = "a" THEN RefV(2) ELSE RefV(3)]),
         ArrObj(FALSE, e1), ArrObj(FALSE, e2)>>, RefV(1)) : e1 \in LeafArrs, e2 \in LeafArrs}
  \cup {Doc(<<MapObj(FALSE, [k \in KeyNames |-> IF k = "a" THEN x ELSE y]),
         ArrObj(FALSE, <<StrV("a"), StrV("a")>>), Free>>, RefV(1)) :
           x \in FilterScalars \cup {RefV(2)}, y \in FilterScalars}

InitFilter ==
  /\ \E doc \in FilterDocs : heap = doc.heap /\ root = doc.root
  /\ pc = "idle"
  /\ call = NoCall
  /\ ctx = NoContext
  /\ it = <<>>
  /\ done = 0
  /\ result = NoReturn
  /\ errs = <<>>
  /\ heap0 = heap
  /\ last = NoCall

\* the filter id is applied to the root as candidate
Match(id, ord) ==
  /\ pc = "idle"
  /\ call' = Call("Match", id, root, FALSE, FALSE, ord)
  /\ result' = Returned("bool", BoolV(newFilter(FilterOf(id), root, root, Env(heap, call'))), <<>>)
  /\ pc' = "got"
  /\ UNCHANGED <<heap, root, ctx, it, done, errs, heap0, last>>

NextFilter ==
  \/ \E id \in FilterIds, ord \in Orders : Match(id, ord)
  \/ Return

SpecFilter == InitFilter /\ [][NextFilter]_vars

\* ------------------------------------------------------------------ properties
\* the values term k of the comparison under evaluation yields on the candidate
TermValues(k) == newFilterScanner(FilterOf(call.path).kids[k], call.value, root, Env(heap, call))

\* C1: a comparison filter (==, !=, <, <=, >, >=, =~) is true on a candidate exactly
\* when its left and its right term both yield at least one value and the operator
\* accepts every pair of a left and a right value; with either list empty it is false.
\* The terms are paths (@, $) or literals in any combination.
C1_SetWiseComparison ==
  (pc = "got" /\ call.api = "Match") =>
    LET L == TermValues(1)
        R == TermValues(2)
        op == FilterOps[call.path[1]]
    IN result.v = BoolV(/\ L # <<>>
                        /\ R # <<>>
                        /\ \A i \in 1..Len(L), j \in 1..Len(R) : accept(op, L[i], R[j]))

\* a path-against-path comparison with several values on both sides is true
C1_Witness ==
  /\ pc = "got"
  /\ call.api = "Match"
  /\ Len(TermValues(1)) > 1
  /\ Len(TermValues(2)) > 1
  /\ TermValues(1) # TermValues(2)
  /\ result.v = BoolV(TRUE)

\* the path text of a call
TextOf(c) == Paths[c.path].text

\* C2: on a map-like root, once Set(data, "$.a", v) has returned, Get(data, "$.a")
\* returns v itself, whether or not the key a was there before the Set.
C2_SetThenGet ==
  (pc = "got" /\ last.api = "Set" /\ TextOf(last) = "$.a" /\ isMapLike(root, heap)) =>
    result = Returned("value", last.value, <<>>)

\* the Get after a Set of "$.a" that had to create the key
C2_Witness ==
  /\ pc = "got"
  /\ last.api = "Set"
  /\ TextOf(last) = "$.a"
  /\ isMapLike(root, heap)
  /\ ~hasKey(heap0[root.n], "a")
  /\ result = Returned("value", last.value, <<>>)

RECURSIVE InvokedInOrder(_, _, _, _)
\* the document after the first n of the capsules are invoked once each, in order
InvokedInOrder(capsules, n, value, h) ==
  IF n = 0 THEN h
  ELSE LET before == InvokedInOrder(capsules, n - 1, value, h)
       IN IF capsules[n].t = "set" THEN invokeSet(capsules[n], value, before) ELSE before

\* the capsules a walk of the document as it was before the Set call finds
WalkBefore == Eval(Paths[call.path].p, setOperation, root, root, Env(heap0, call))

\* the capsules a walk of the document as it is now would find
WalkNow == Eval(Paths[call.path].p, setOperation, root, root, Env(heap, call))

\* C3: within one Set call the capsules are those a walk of the unmodified document
\* finds; they are invoked once each in the order of that walk, so the document after k
\* turns of the loop is the unmodified one with the first k capsules applied, whatever
\* the earlier writes did to the locations the path would match now.
C3_CapsulesFoundBeforeFirstWrite ==
  (pc = "invoking" /\ call.api = "Set") =>
    /\ it = WalkBefore
    /\ heap = InvokedInOrder(WalkBefore, done, call.value, heap0)

\* a Set whose first write changes what a walk would find, all capsules invoked
C3_Witness ==
  /\ pc = "invoking"
  /\ call.api = "Set"
  /\ Len(it) > 1
  /\ done = Len(it)
  /\ Len(WalkNow) < Len(it)

\* the lexemes of the path of the call in progress, and the last of them
LexemesOf(c) == Paths[c.path].p
LastLexeme == LexemesOf(call)[Len(LexemesOf(call))]

\* the last segment is a wildcard or an array subscript
EndsInWildcardOrSubscript ==
  /\ LexemesOf(call) # <<>>
  /\ \/ LastLexeme.typ = "arraySubscript"
     \/ LastLexeme.typ \in {"dotChild", "undottedChild", "recursiveDescent"} /\ LastLexeme.val = "*"

\* the last segment names children: .k, ..k, an undotted k, or ['k1','k2']
EndsInNames ==
  /\ LexemesOf(call) # <<>>
  /\ \/ LastLexeme.typ = "bracketChild"
     \/ LastLexeme.typ \in {"dotChild", "undottedChild", "recursiveDescent"} /\ LastLexeme.val # "*"

\* the names of the last segment
LastNames ==
  IF LastLexeme.typ = "bracketChild" THEN {LastLexeme.names[j] : j \in 1..Len(LastLexeme.names)}
  ELSE {LastLexeme.val}

\* the value at the location a capsule addresses, Absent for a key the map lacks
ValueAt(c, h) == IF h[c.n].kind = "map" THEN h[c.n].m[c.s] ELSE h[c.n].e[c.i + 1]

\* what get yields for the path of the mutating call on the document as it was
GetWalk == Eval(LexemesOf(call), getOperation, root, root, Env(heap0, call))

\* every element is a capsule of the operation of the call
AllCapsules ==
  \A j \in 1..Len(it) : it[j].t = (IF call.api = "Set" THEN "set" ELSE "delete")

\* C4 as stated: under set or delete the sequence holds exactly one capsule for each
\* location the path matches under get, as many and in the same order, and none for a
\* location get does not match.
C4_OneCapsulePerGetMatch ==
  (pc = "invoking" /\ done = 0) =>
    /\ AllCapsules
    /\ [j \in 1..Len(it) |-> ValueAt(it[j], heap0)] = GetWalk

\* C4 amended: under set or delete, a path ending in a wildcard or an array subscript
\* yields exactly one capsule per location get matches, in the same order for the same
\* map iteration order; a path ending in child names yields one capsule per map-like
\* candidate and listed name, whether or not the key exists, and those at existing keys
\* are the get matches in order; any other path ($, the empty path, one ending in a
\* filter or a property name) yields no capsule.
C4_CapsulesOfLastSegment ==
  (pc = "invoking" /\ done = 0) =>
    IF EndsInWildcardOrSubscript
    THEN /\ AllCapsules
         /\ [j \in 1..Len(it) |-> ValueAt(it[j], heap0)] = GetWalk
    ELSE IF EndsInNames
    THEN LET atKeys == SelectSeq(it, LAMBDA c : ValueAt(c, heap0) # Absent)
         IN /\ AllCapsules
            /\ \A j \in 1..Len(it) : heap0[it[j].n].kind = "map" /\ it[j].s \in LastNames
            /\ [j \in 1..Len(atKeys) |-> ValueAt(atKeys[j], heap0)] = GetWalk
    ELSE \A j \in 1..Len(it) : ~isCapsule(it[j])

\* a Set through a wildcard or subscript under another segment: several capsules, at
\* the locations get matches, in the order of get
C4_Witness ==
  /\ pc = "invoking"
  /\ done = 0
  /\ call.api = "Set"
  /\ EndsInWildcardOrSubscript
  /\ Len(LexemesOf(call)) > 1
  /\ Len(it) > 1
  /\ [j \in 1..Len(it) |-> ValueAt(it[j], heap0)] = GetWalk

\* the maps the capsules of the call own
Owners == {it[j].n : j \in {i \in 1..Len(it) : isCapsule(it[i])}}

\* C5: when Set with a path ending in child names (.k or ['k1','k2']) has returned,
\* every map-like value the path reached holds each named key with the given value,
\* a key it lacked included, and its other keys are as before.
C5_SetCreatesMissingKey ==
  (pc = "invoking" /\ call.api = "Set" /\ done = Len(it) /\ EndsInNames) =>
    \A o \in Owners : \A k \in KeyNames :
      heap[o].m[k] = IF k \in LastNames THEN call.value ELSE heap0[o].m[k]

\* a Set that created a key in a map that holds another key
C5_Witness ==
  /\ pc = "invoking"
  /\ call.api = "Set"
  /\ done = Len(it)
  /\ EndsInNames
  /\ \E o \in Owners : \E k \in LastNames, k2 \in KeyNames \ LastNames :
       /\ heap0[o].m[k] = Absent
       /\ heap[o].m[k] = call.value
       /\ heap0[o].m[k2] # Absent

\* C6: Set with $.* or $[*] on a map-like or array-like root replaces the value at
\* every existing key or index by the given value and changes nothing else: the key
\* set, the length and the other containers stay as they were.
C6_SetWildcardReplacesAll ==
  (/\ pc = "invoking" /\ call.api = "Set" /\ done = Len(it)
   /\ TextOf(call) \in {"$.*", "$[*]"}
   /\ root.t = "ref") =>
    /\ \A a \in DOMAIN heap : a # root.n => heap[a] = heap0[a]
    /\ heap[root.n].kind = heap0[root.n].kind
    /\ heap[root.n].cap = heap0[root.n].cap
    /\ \A k \in KeyNames :
         heap[root.n].m[k] = IF hasKey(heap0[root.n], k) THEN call.value ELSE Absent
    /\ Len(heap[root.n].e) = Len(heap0[root.n].e)
    /\ \A j \in 1..Len(heap[root.n].e) : heap[root.n].e[j] = call.value

\* a Set of $[*] on an array root of two elements has written both
C6_Witness ==
  /\ pc = "invoking"
  /\ call.api = "Set"
  /\ done = Len(it)
  /\ TextOf(call) = "$[*]"
  /\ isArrayLike(root, heap)
  /\ Len(heap[root.n].e) = 2
  /\ \A j \in 1..2 : heap0[root.n].e[j] # call.value /\ heap[root.n].e[j] = call.value

\* the delete capsules invoked so far
Invoked == SelectSeq(SubSeq(it, 1, done), LAMBDA c : c.t = "delete")

\* C7: a delete capsule whose owner is array-like returns an error and leaves the
\* owner as it was; one whose owner is map-like removes exactly its key from the owner
\* and returns no error.
C7_DeleteCapsule ==
  (pc = "invoking" /\ call.api = "Delete") =>
    /\ Len(errs) = Len(Invoked)
    /\ \A j \in 1..Len(Invoked) : (errs[j] = "nil") <=> (heap0[Invoked[j].n].kind = "map")
    /\ \A a \in DOMAIN heap :
         IF heap0[a].kind = "map"
         THEN heap[a] = [heap0[a] EXCEPT !.m = [k \in KeyNames |->
                IF \E j \in 1..Len(Invoked) : Invoked[j].n = a /\ Invoked[j].s = k
                THEN Absent ELSE heap0[a].m[k]]]
         ELSE heap[a] = heap0[a]

\* a delete call that has invoked a capsule of an array and one of a map
C7_Witness ==
  /\ pc = "invoking"
  /\ call.api = "Delete"
  /\ \E j \in 1..Len(Invoked) : heap0[Invoked[j].n].kind = "arr" /\ errs[j] # "nil"
  /\ \E j \in 1..Len(Invoked) :
       /\ heap0[Invoked[j].n].kind = "map"
       /\ heap0[Invoked[j].n].m[Invoked[j].s] # Absent
       /\ errs[j] = "nil"

\* the matches of the path of the Get call on the document
Matches == Eval(LexemesOf(call), getOperation, root, root, Env(heap, call))

\* C8: with AlwaysReturnList Get returns the whole list of matches; without it Get
\* returns the whole list when the path is not definite and, when it is definite, nil
\* for no match and the one value itself, not a list, for one match.
C8_GetReturn ==
  (pc = "got" /\ call.api = "Get") =>
    /\ call.returnList => result = Returned("list", NullV, Matches)
    /\ (~call.returnList /\ ~ctx.definite) => result = Returned("list", NullV, Matches)
    /\ (~call.returnList /\ ctx.definite /\ Len(Matches) = 0) => result = Returned("nil", NullV, <<>>)
    /\ (~call.returnList /\ ctx.definite /\ Len(Matches) = 1) =>
         result = Returned("value", Matches[1], <<>>)

\* a definite path with one match, a container, returned bare
C8_Witness ==
  /\ pc = "got"
  /\ call.api = "Get"
  /\ ~call.returnList
  /\ ctx.definite
  /\ Len(LexemesOf(call)) > 1
  /\ Len(Matches) = 1
  /\ Matches[1].t = "ref"
  /\ result = Returned("value", Matches[1], <<>>)

\* C9 as stated: a path compiled with definite still true yields at most one match.
C9_DefiniteAtMostOneMatch ==
  (pc = "got" /\ call.api = "Get" /\ ctx.definite) => Len(it) <= 1

\* a lexeme of a kind the definite flag is said to fall for: recursive descent, a
\* wildcard (.*, an undotted *, [*], [*]~), a union or range subscript, a bracket list
\* of more than one name, a filter
Indefinite(token) ==
  \/ token.typ \in {"recursiveDescent", "filter", "recursiveFilter"}
  \/ token.typ \in {"dotChild", "undottedChild"} /\ token.val = "*"
  \/ token.typ = "arraySubscript" /\ (isWildcard(token.sub) \/ isUnionOrRange(token.sub))
  \/ token.typ = "arraySubscriptPropertyName" /\ isWildcard(token.sub)
  \/ token.typ \in {"bracketChild", "bracketPropertyName"} /\ Len(token.names) > 1

\* C10 as stated: the compiled path has definite false exactly when one of its
\* lexemes is a recursive descent, a wildcard, a union or range subscript, a bracket
\* list of more than one name or a filter, and true otherwise.
C10_DefiniteFlag ==
  (pc = "compiled") =>
    (ctx.definite <=> ~\E j \in 1..Len(LexemesOf(call)) : Indefinite(LexemesOf(call)[j]))

\* the path of the call without its last lexeme
Prefix == SubSeq(LexemesOf(call), 1, Len(LexemesOf(call)) - 1)

\* the values the lexemes p hand on to a segment that follows them: p evaluated with a
\* pass-through segment after it, so that its last lexeme is not the last of a path
HandedOn(p, value) == Eval(p \o <<lexemeRoot>>, getOperation, value, root, Env(heap, call))

\* the candidates of the last segment of the path of the call: what the prefix hands
\* on, and for ..name every descendant of that, in traversal order
Candidates ==
  IF LastLexeme.typ = "recursiveDescent"
  THEN Concat([j \in 1..Len(HandedOn(Prefix, root)) |->
                 RecurseValues(<<HandedOn(Prefix, root)[j]>>, Env(heap, call))])
  ELSE HandedOn(Prefix, root)

\* the last segment is .name, an undotted name or ..name
EndsInNamedChild ==
  /\ LexemesOf(call) # <<>>
  /\ LastLexeme.typ \in {"dotChild", "undottedChild", "recursiveDescent"}
  /\ LastLexeme.val \notin {"*", ""}

\* C11: a named child (.name or ..name) that is the last segment yields, candidate by
\* candidate in order, the value of a map-like candidate that has the key, exactly one
\* null for a map-like candidate that lacks it when ReturnNullForMissingLeaf is set and
\* nothing for it otherwise, and nothing for a candidate that is not map-like.
C11_NullForMissingLeaf ==
  (pc = "got" /\ call.api = "Get" /\ EndsInNamedChild) =>
    it = Concat([j \in 1..Len(Candidates) |->
           LET c == Candidates[j]
           IN IF ~isMapLike(c, heap) THEN <<>>
              ELSE IF hasKey(heap[c.n], LastLexeme.val) THEN <<heap[c.n].m[LastLexeme.val]>>
              ELSE IF call.returnNullForMissingLeaf THEN <<NullV>>
              ELSE <<>>])

\* ..name with the option over candidates of all three kinds: a map that lacks the
\* key before one that has it, and the array that holds them
C11_Witness ==
  /\ pc = "got"
  /\ call.api = "Get"
  /\ EndsInNamedChild
  /\ LastLexeme.typ = "recursiveDescent"
  /\ call.returnNullForMissingLeaf
  /\ \E j \in 1..Len(Candidates) : ~isMapLike(Candidates[j], heap)
  /\ Len(it) = 2
  /\ it[1] = NullV
  /\ it[2] # NullV

\* the path of the call has no wildcard, union, range, filter or recursive descent
NoIndefiniteLexeme == \A j \in 1..Len(LexemesOf(call)) : ~Indefinite(LexemesOf(call)[j])

\* the key lexeme k of the path names, for a .name, an undotted name or a ['name']
NamedKey(k) ==
  IF LexemesOf(call)[k].typ = "bracketChild" THEN LexemesOf(call)[k].names[1]
  ELSE LexemesOf(call)[k].val

\* the positions of the path at which the key it names is absent: the lexemes before
\* hand on a map-like value and that value lacks the key
AbsentKeyAt ==
  {k \in 1..Len(LexemesOf(call)) :
     /\ LexemesOf(call)[k].typ \in {"dotChild", "undottedChild", "bracketChild"}
     /\ LET handed == HandedOn(SubSeq(LexemesOf(call), 1, k - 1), root)
        IN /\ Len(handed) = 1
           /\ isMapLike(handed[1], heap)
           /\ ~hasKey(heap[handed[1].n], NamedKey(k))}

EndsInIndexSubscript ==
  /\ LexemesOf(call) # <<>>
  /\ LastLexeme.typ = "arraySubscript"
  /\ ~isWildcard(LastLexeme.sub)

\* the last segment is .name, an undotted name, ..name or a bracket child
EndsInLookup ==
  /\ LexemesOf(call) # <<>>
  /\ \/ LastLexeme.typ = "bracketChild"
     \/ LastLexeme.typ \in {"dotChild", "undottedChild", "recursiveDescent"}
        /\ LastLexeme.val \notin {"*", ""}

\* the names the last segment lists, in its order
ListedNames == IF LastLexeme.typ = "bracketChild" THEN LastLexeme.names ELSE <<LastLexeme.val>>

\* what a lookup of the listed names contributes for candidate c: nothing for a value
\* that is not map-like, nothing for a key the map lacks
LookupOf(c) ==
  IF ~isMapLike(c, heap) THEN <<>>
  ELSE LET there == SelectSeq(ListedNames, LAMBDA k : heap[c.n].m[k] # Absent)
       IN [j \in 1..Len(there) |-> heap[c.n].m[there[j]]]

\* what the subscript contributes for candidate c: nothing for a value that is not
\* array-like, nothing for an index outside [0, length)
SubscriptOf(c) ==
  IF ~isArrayLike(c, heap) THEN <<>>
  ELSE LET e == heap[c.n].e
           named == slice(LastLexeme.sub, Len(e)).idx
           inside == SelectSeq(named, LAMBDA x : 0 <= x /\ x < Len(e))
       IN [j \in 1..Len(inside) |-> e[inside[j] + 1]]

\* C13: under get without options a child or bracket-child lookup on a value that is
\* not map-like, an integer, union or range subscript on a value that is not
\* array-like, a lookup of a key the map lacks and an index outside [0, length) each
\* contribute nothing, and the evaluation ends without a panic.
C13_MismatchYieldsNothing ==
  (pc = "got" /\ call.api = "Get" /\ ~call.returnNullForMissingLeaf) =>
    /\ result.kind # "panic"
    /\ \A j \in 1..Len(it) : it[j] # PanicV
    /\ EndsInLookup => it = Concat([j \in 1..Len(Candidates) |-> LookupOf(Candidates[j])])
    /\ EndsInIndexSubscript =>
         it = Concat([j \in 1..Len(Candidates) |-> SubscriptOf(Candidates[j])])

\* a union subscript under a name, on an array of one element: the index in range is
\* matched, the one out of range contributes nothing
C13_Witness ==
  /\ pc = "got"
  /\ call.api = "Get"
  /\ ~call.returnNullForMissingLeaf
  /\ EndsInIndexSubscript
  /\ Len(LastLexeme.sub) = 2
  /\ isArrayLike(root, heap)
  /\ Len(heap[root.n].e) = 1
  /\ it = <<heap[root.n].e[1]>>

\* ------------------------------------------------------------------ slice on its own
\* the components of a range: blank, text that is no integer, an integer
Components == {Blank, NotInt} \cup {Num(n) : n \in (0 - MaxIndex)..MaxIndex}

\* the members without a comma: *, one to three components, and two with three colons
Members ==
  {Wild}
  \cup {Member(parts) : parts \in UNION {[1..n -> Components] : n \in 1..3}}
  \cup {Member(<<Blank, Blank, Blank, Blank>>), Member(<<Num(0), Num(1), Num(1), Num(1)>>)}

\* the members unions are built from
UnionMembers ==
  {Wild, Member(<<Blank>>), Member(<<NotInt>>), Member(<<Blank, Blank, Num(0)>>),
   Member(<<Blank, Blank>>), Member(<<Num(0), Num(2)>>), Member(<<Blank, Blank, Num(-1)>>)}
  \cup {Member(<<Num(n)>>) : n \in -2..2}

\* the subscripts handed to slice
Subscripts ==
  {<<m>> : m \in Members} \cup UNION {[1..n -> UnionMembers] : n \in 2..3}

\* what slice returned: the indexes, or the error with the union member it names
\* (-1 when the error is not one of a union)
Sliced(sl) ==
  IF sl.err THEN Returned("error", Val(sl.msg, sl.member, ""), <<>>)
  ELSE Returned("indices", NullV, sl.idx)

InitSlice ==
  /\ heap = <<Free, Free, Free>>
  /\ root = IntV(1)
  /\ pc = "idle"
  /\ call = NoCall
  /\ ctx = NoContext
  /\ it = <<>>
  /\ done = 0
  /\ result = NoReturn
  /\ errs = <<>>
  /\ heap0 = heap
  /\ last = NoCall

\* slice(index, length)
Slice(sub, length) ==
  /\ pc = "idle"
  /\ call' = Call("slice", sub, IntV(length), FALSE, FALSE, <<>>)
  /\ result' = Sliced(slice(sub, length))
  /\ pc' = "got"
  /\ UNCHANGED <<heap, root, ctx, it, done, errs, heap0, last>>

NextSlice ==
  \/ \E sub \in Subscripts, length \in 0..MaxLength : Slice(sub, length)
  \/ Return

SpecSlice == InitSlice /\ [][NextSlice]_vars

\* a call of slice has returned
SliceReturned == pc = "got" /\ call.api = "slice"
\* its arguments
Sub == call.path
Length == call.value.n

\* the subscript is one range from:to:step of integers or blanks with a step that is
\* not 0
IsRange ==
  /\ Len(Sub) = 1
  /\ ~Sub[1].wild
  /\ Len(Sub[1].parts) \in {2, 3}
  /\ \A j \in 1..Len(Sub[1].parts) : Sub[1].parts[j].isInt
  /\ Len(Sub[1].parts) = 3 => ~(Sub[1].parts[3].present /\ Sub[1].parts[3].value = 0)

\* the step of the range, 1 when omitted
RangeStep ==
  IF Len(Sub[1].parts) = 3 /\ Sub[1].parts[3].present THEN Sub[1].parts[3].value ELSE 1

\* a given bound with a negative value increased by the length, or the default
Bound(k, whenUp, whenDown) ==
  IF Sub[1].parts[k].present
  THEN (IF Sub[1].parts[k].value < 0 THEN Sub[1].parts[k].value + Length ELSE Sub[1].parts[k].value)
  ELSE (IF RangeStep > 0 THEN whenUp ELSE whenDown)

RECURSIVE Progression(_, _, _, _)
\* the members of i, i + step, i + 2 * step, ... strictly before to that lie in
\* [0, length), in generation order
Progression(i, to, step, length) ==
  IF (step > 0 /\ i < to) \/ (step < 0 /\ i > to)
  THEN (IF 0 <= i /\ i < length THEN <<i>> ELSE <<>>) \o Progression(i + step, to, step, length)
  ELSE <<>>

\* C14 as stated: for a range from:to:step with step # 0 slice returns exactly the
\* members of the progression from the adjusted from, strictly before the adjusted to,
\* that lie in [0, L), in generation order.
C14_RangeIsProgression ==
  (SliceReturned /\ IsRange) =>
    result = Returned("indices", NullV,
                      Progression(Bound(1, 0, Length - 1), Bound(2, Length, -1), RangeStep, Length))

\* the subscript is a single integer
IsSingleInteger ==
  /\ Len(Sub) = 1
  /\ ~Sub[1].wild
  /\ Len(Sub[1].parts) = 1
  /\ Sub[1].parts[1].present
  /\ Sub[1].parts[1].isInt

\* C15: for a single-integer subscript i and a length L slice returns [i] when
\* 0 <= i < L, [i + L] when -L <= i < 0 and the empty list otherwise, never an error.
C15_SingleInteger ==
  (SliceReturned /\ IsSingleInteger) =>
    LET i == Sub[1].parts[1].value
    IN result = Returned("indices", NullV,
                         IF 0 <= i /\ i < Length THEN <<i>>
                         ELSE IF 0 - Length <= i /\ i < 0 THEN <<i + Length>>
                         ELSE <<>>)

\* a negative integer that counts from the end of a container of three
C15_Witness ==
  /\ SliceReturned
  /\ IsSingleInteger
  /\ Length = 3
  /\ Sub[1].parts[1].value = -2
  /\ result.l = <<1>>

\* C16: whatever the subscript and the length L, every index slice returns lies in
\* [0, L); the result is empty when L = 0.
C16_IndexesInside ==
  SliceReturned =>
    /\ \A j \in 1..Len(result.l) : 0 <= result.l[j] /\ result.l[j] < Length
    /\ Length = 0 => result.l = <<>>

\* a range that reaches beyond both ends of a container of two
C16_Witness ==
  /\ SliceReturned
  /\ IsRange
  /\ Length = 2
  /\ Bound(1, 0, Length - 1) < 0
  /\ Bound(2, Length, -1) > Length
  /\ result.l = <<0, 1>>

\* member m of a subscript is one slice rejects: * in a union, more than two colons,
\* a component that is no integer, an empty index, a step of 0
Malformed(m, inUnion) ==
  IF m.wild THEN inUnion
  ELSE \/ Len(m.parts) > 3
       \/ \E j \in 1..Len(m.parts) : m.parts[j].present /\ ~m.parts[j].isInt
       \/ Len(m.parts) = 1 /\ ~m.parts[1].present
       \/ Len(m.parts) = 3 /\ m.parts[3].present /\ m.parts[3].isInt /\ m.parts[3].value = 0

\* the positions, from 0, of the members slice rejects
Rejected == {j \in 0..(Len(Sub) - 1) : Malformed(Sub[j + 1], Len(Sub) > 1)}

\* the least of a set of naturals
Least(S) == CHOOSE x \in S : \A y \in S : x <= y

\* C17 as stated: slice returns an error and no index list for a step of 0, a union
\* with a * member, a component that is no integer, an empty index and more than two
\* colons, anywhere in a union; for a union with a * member the error names the
\* position of that member.
C17_ErrorNamesWildcardMember ==
  (SliceReturned /\ Rejected # {}) =>
    /\ result.kind = "error"
    /\ result.l = <<>>
    /\ (Len(Sub) > 1 /\ \E j \in 1..Len(Sub) : Sub[j].wild) => Sub[result.v.n + 1].wild

\* C17 amended: the error of a union names the position of the first member that is
\* * or malformed; the rest as stated.
C17_ErrorNamesFirstRejectedMember ==
  (SliceReturned /\ Rejected # {}) =>
    /\ result.kind = "error"
    /\ result.l = <<>>
    /\ Len(Sub) > 1 => result.v.n = Least(Rejected)

\* a union whose second member is * and whose third has a step of 0
C17_Witness ==
  /\ SliceReturned
  /\ Len(Sub) = 3
  /\ Rejected = {1, 2}
  /\ Sub[2].wild
  /\ result.kind = "error"
  /\ result.v.n = 1

\* C18: for a union slice returns the concatenation, member by member from the left,
\* of what each member returns on its own for the same length: duplicates stay, the
\* order is that of the members, a member out of range adds nothing.
C18_UnionConcatenates ==
  (SliceReturned /\ Len(Sub) > 1 /\ Rejected = {}) =>
    result = Returned("indices", NullV,
                      Concat([j \in 1..Len(Sub) |-> slice(<<Sub[j]>>, Length).idx]))

\* a union that names an index twice, out of order, next to one out of range
C18_Witness ==
  /\ SliceReturned
  /\ Len(Sub) = 3
  /\ Length = 2
  /\ Sub = <<Member(<<Num(1)>>), Member(<<Num(2)>>), Member(<<Num(-1)>>)>>
  /\ result.l = <<1, 1>>

\* the path of the call is $, then ..name, then further segments
DescentThenMore ==
  /\ Len(LexemesOf(call)) >= 3
  /\ LexemesOf(call)[1].typ = "root"
  /\ LexemesOf(call)[2].typ = "recursiveDescent"
  /\ LexemesOf(call)[2].val \notin {"*", ""}

\* the segments after ..name
Rest == SubSeq(LexemesOf(call), 3, Len(LexemesOf(call)))

\* the values stored under the key of ..name in the map-like descendants of the root,
\* the root included, in traversal order
Occurrences ==
  LET walk == RecurseValues(<<root>>, Env(heap, call))
      name == LexemesOf(call)[2].val
  IN Concat([j \in 1..Len(walk) |->
       IF isMapLike(walk[j], heap) /\ heap[walk[j].n].m[name] # Absent
       THEN <<heap[walk[j].n].m[name]>>
       ELSE <<>>])

\* what the rest of the path yields on a value
RestOn(value) == Eval(Rest, getOperation, value, root, Env(heap, call))

\* the items of an array-like value, none for any other value
ItemsUnder(value) == IF isArrayLike(value, heap) THEN heap[value.n].e ELSE <<>>

IsDescentAll == LexemesOf(call) = <<lexemeRoot, lexemeRecursiveDescent("*")>>

\* a value is a container of the document
IsContainer(v) == isMapLike(v, heap) \/ isArrayLike(v, heap)

\* the children of a container in its iteration order: the items of an array by index,
\* the values of a map in the order this run's iteration shows its keys
ChildSeq(c) ==
  IF isArrayLike(c, heap) THEN heap[c.n].e
  ELSE IF isMapLike(c, heap)
  THEN LET ks == SelectSeq(call.ord, LAMBDA k : heap[c.n].m[k] # Absent)
       IN [j \in 1..Len(ks) |-> heap[c.n].m[ks[j]]]
  ELSE <<>>

RECURSIVE CountUnder(_)
\* how many values the values vs and all their descendants are
CountUnder(vs) ==
  IF vs = <<>> THEN 0
  ELSE 1 + CountUnder(ChildSeq(Head(vs))) + CountUnder(Tail(vs))

\* the containers of the document that $..* has to look into
Containers == (IF IsContainer(root) THEN {root} ELSE {})
              \cup {it[j] : j \in {k \in 1..Len(it) : IsContainer(it[k])}}

\* C20: $..* yields every proper descendant of the root exactly once and never the
\* root; the children of one container appear contiguously in that container's
\* iteration order, and every container appears before all of its own descendants.
C20_DescentAll ==
  (pc = "got" /\ call.api = "Get" /\ IsDescentAll) =>
    /\ Len(it) = CountUnder(ChildSeq(root))
    /\ \A j \in 1..Len(it) : it[j] # root
    /\ \E start \in [Containers -> 1..(Len(it) + 1)] :
         /\ \A c \in Containers :
              /\ start[c] + Len(ChildSeq(c)) - 1 <= Len(it)
              /\ SubSeq(it, start[c], start[c] + Len(ChildSeq(c)) - 1) = ChildSeq(c)
              /\ \A j \in 1..Len(it) : it[j] = c => start[c] > j
         /\ \A c, e \in Containers :
              c # e => \/ start[c] + Len(ChildSeq(c)) <= start[e]
                       \/ start[e] + Len(ChildSeq(e)) <= start[c]

\* a document three levels deep: a container, then the container in it, then what
\* that one holds
C20_Witness ==
  /\ pc = "got"
  /\ call.api = "Get"
  /\ IsDescentAll
  /\ Len(it) >= 3
  /\ ChildSeq(root) = <<it[1]>>
  /\ ChildSeq(it[1]) = <<it[2]>>
  /\ Len(ChildSeq(it[2])) >= 1
  /\ it[3] = ChildSeq(it[2])[1]

\* C30: whether slice returns an error depends on the subscript only, never on the
\* length: a call of slice fails for one length exactly when it fails for every other,
\* so a subscript accepted for one length is accepted for the length of any array.
C30_ErrorIndependentOfLength ==
  SliceReturned =>
    \A other \in 0..MaxLength : (result.kind = "error") <=> slice(Sub, other).err

\* an index accepted for the empty container, where it selects nothing, that selects
\* an element of a longer one
C30_Witness ==
  /\ SliceReturned
  /\ Length = 0
  /\ result = Returned("indices", NullV, <<>>)
  /\ \E other \in 1..MaxLength : slice(Sub, other).idx # <<>>
  /\ IsSingleInteger

\* the path of the call is the empty path or $
IsIdentityOrRoot == TextOf(call) \in {"", "$"}

\* C23: the empty path and the path $ evaluated against any value v, scalar, map-like
\* or array-like, yield exactly the one-element list [v].
C23_IdentityAndRoot ==
  (pc = "got" /\ call.api = "Get" /\ IsIdentityOrRoot) =>
    /\ it = <<root>>
    /\ call.returnList => result = Returned("list", NullV, <<root>>)

\* the empty path on an array-like document
C23_Witness ==
  /\ pc = "got"
  /\ call.api = "Get"
  /\ TextOf(call) = ""
  /\ isArrayLike(root, heap)
  /\ call.returnList
  /\ result.l = <<root>>

\* the path of call c ends in a filter or a property-name segment, or is "" or $
WithoutLocation(c) ==
  \/ TextOf(c) \in {"", "$"}
  \/ LexemesOf(c)[Len(LexemesOf(c))].typ \in
       {"filter", "recursiveFilter", "propertyName", "bracketPropertyName",
        "arraySubscriptPropertyName"}

\* C29: Set with a path whose last segment is a filter or a property-name segment, or
\* whose text is "" or $, produces no capsule; every container of the document is the
\* same before, during and after the call, and nothing is reported.
C29_SetWithoutCapsule ==
  /\ (pc = "invoking" /\ call.api = "Set" /\ WithoutLocation(call)) =>
       /\ \A j \in 1..Len(it) : ~isCapsule(it[j])
       /\ heap = heap0
       /\ errs = <<>>
  /\ (pc = "idle" /\ last.api = "Set" /\ WithoutLocation(last)) =>
       /\ heap = heap0
       /\ errs = <<>>

\* a Set through a filter that accepted an item of an array has returned
C29_Witness ==
  /\ pc = "idle"
  /\ last.api = "Set"
  /\ LexemesOf(last) # <<>>
  /\ LexemesOf(last)[Len(LexemesOf(last))].typ = "filter"
  /\ Len(it) >= 1
  /\ done = Len(it)
  /\ \A j \in 1..Len(it) : it[j] # last.value
  /\ heap = heap0

\* the last segment of the path of the call is a property-name segment
EndsInPropertyName ==
  /\ LexemesOf(call) # <<>>
  /\ LastLexeme.typ \in {"propertyName", "bracketPropertyName", "arraySubscriptPropertyName"}

\* the child, bracket or array-subscript segment a property-name segment corresponds to
WithoutTilde(lx) ==
  CASE lx.typ = "propertyName" -> lexemeDotChild(lx.val)
    [] lx.typ = "bracketPropertyName" -> lexemeBracketChild(lx.names)
    [] lx.typ = "arraySubscriptPropertyName" -> lexemeArraySubscript(lx.sub)
    [] OTHER -> lx

\* what the candidates of the last segment are, and the values the corresponding
\* segment selects in one of them
Selected(c) ==
  Eval(<<WithoutTilde(LastLexeme)>>, getOperation, c, root,
       [Env(heap, call) EXCEPT !.returnNullForMissingLeaf = FALSE])

\* the sequence ks holds, one for one, the keys (map-like owner c) or the indexes
\* (array-like owner c) of the values vs
NamesOf(ks, vs, c) ==
  /\ Len(ks) = Len(vs)
  /\ \A j \in 1..Len(ks) :
       IF isMapLike(c, heap)
       THEN ks[j].t = "string" /\ heap[c.n].m[ks[j].s] = vs[j]
       ELSE /\ isArrayLike(c, heap)
            /\ ks[j].t = "int"
            /\ ks[j].n \in 0..(Len(heap[c.n].e) - 1)
            /\ heap[c.n].e[ks[j].n + 1] = vs[j]

\* C22 as stated: a property-name segment selects the same locations as the
\* corresponding child, bracket or array-subscript segment and yields for each its key
\* (map-like owner) or its index (array-like owner) instead of its value.
C22_KeyOrIndexOfEachLocation ==
  (pc = "got" /\ call.api = "Get" /\ EndsInPropertyName /\ Len(Prefix) = 1) =>
    NamesOf(it, Selected(root), root)

\* C22 amended: on a map-like owner a property-name segment yields the keys of the
\* locations the corresponding segment selects, in the same order; on any other owner,
\* an array included, it yields nothing.
C22_KeysOfMapLikeOwnerOnly ==
  (pc = "got" /\ call.api = "Get" /\ EndsInPropertyName /\ Len(Prefix) = 1) =>
    IF isMapLike(root, heap) THEN NamesOf(it, Selected(root), root) ELSE it = <<>>

\* [*]~ on a map of two keys
C22_Witness ==
  /\ pc = "got"
  /\ call.api = "Get"
  /\ EndsInPropertyName
  /\ LastLexeme.typ = "arraySubscriptPropertyName"
  /\ isMapLike(root, heap)
  /\ Len(it) = 2
  /\ it[1].t = "string"
  /\ it[1] # it[2]
  /\ Selected(root) = <<heap[root.n].m[it[1].s], heap[root.n].m[it[2].s]>>

\* the path of the call is $[?(@[?($.a)])]: a filter on $.a inside the sub-path of the
\* @ term of an enclosing filter
IsNestedDollar == TextOf(call) = "$[?(@[?($.a)])]"

\* the term $.a evaluated against the root of the document
DollarOnDocument ==
  Eval(<<lexemeRoot, lexemeDotChild("a")>>, getOperation, root, root,
       [Env(heap, call) EXCEPT !.returnNullForMissingLeaf = FALSE])

\* the candidates a filter segment has in a value: the items of an array, or the value
CandidatesIn(v) == IF isArrayLike(v, heap) THEN heap[v.n].e ELSE <<v>>

\* the enclosing filter accepts c when the inner filter, whose term is $.a on the
\* document, accepts one of its own candidates in c
EnclosingAccepts(c) == CandidatesIn(c) # <<>> /\ DollarOnDocument # <<>>

\* C21: a $ term of a filter inside the sub-path of an @ term of an enclosing filter is
\* evaluated against the root of the document given to the evaluation, and the @ term
\* against the candidate of its own filter.
C21_DollarIsDocumentRoot ==
  (pc = "got" /\ call.api = "Get" /\ IsNestedDollar) =>
    it = SelectSeq(CandidatesIn(root), EnclosingAccepts)

\* ------------------------------------------------------------------ iterators, pull by pull
\* the state an Iterator closure captures: the values and index of FromValues, the
\* iterators left of FromIterators, the stack and (as its[1]) the upstream of RecurseValues
Iter(kind, vals, index, reverse, its, stack) ==
  [kind |-> kind, values |-> vals, index |-> index, reverse |-> reverse, its |-> its, stack |-> stack]

\* the closure FromValues(reverse, values...) returns
FromValuesIterator(reverse, vals) ==
  Iter("FromValues", vals, IF reverse THEN Len(vals) - 1 ELSE 0, reverse, <<>>, <<>>)

\* the closure FromIterators(its...) returns
FromIteratorsIterator(its) == Iter("FromIterators", <<>>, 0, FALSE, its, <<>>)

\* the closure it.RecurseValues() returns
RecurseValuesIterator(upstream) == Iter("RecurseValues", <<>>, 0, FALSE, <<upstream>>, <<>>)

\* what one call of an Iterator returns, and the state it leaves the closure in
Pulled2(value, ok, next) == [value |-> value, ok |-> ok, next |-> next]

RECURSIVE pullFromLastIterator(_, _)
\* an Iterator whose FromIterators asks the last of its iterators first
pullFromLastIterator(s, d) ==
  CASE s.kind = "FromValues" ->
         IF s.reverse
         THEN (IF s.index < 0 THEN Pulled2(NullV, FALSE, s)
               ELSE Pulled2(s.values[s.index + 1], TRUE, [s EXCEPT !.index = @ - 1]))
         ELSE (IF s.index >= Len(s.values) THEN Pulled2(NullV, FALSE, s)
               ELSE Pulled2(s.values[s.index + 1], TRUE, [s EXCEPT !.index = @ + 1]))
    [] s.kind = "FromIterators" ->
         IF Len(s.its) = 0 THEN Pulled2(NullV, FALSE, s)
         ELSE LET r == pullFromLastIterator(s.its[Len(s.its)], d)
              IN IF r.ok THEN Pulled2(r.value, TRUE, [s EXCEPT !.its[Len(s.its)] = r.next])
                 ELSE pullFromLastIterator([s EXCEPT !.its = SubSeq(@, 1, Len(@) - 1)], d)
    [] s.kind = "RecurseValues" ->
         IF Len(s.stack) > 0
         THEN LET value == s.stack[Len(s.stack)]
              IN Pulled2(value, TRUE,
                         [s EXCEPT !.stack = SubSeq(@, 1, Len(@) - 1) \o children(value, d)])
         ELSE LET r == pullFromLastIterator(s.its[1], d)
              IN IF ~r.ok THEN Pulled2(NullV, FALSE, [s EXCEPT !.its[1] = r.next])
                 ELSE Pulled2(r.value, TRUE, [s EXCEPT !.its[1] = r.next, !.stack = children(r.value, d)])
    [] OTHER -> Pulled2(NullV, FALSE, s)

RECURSIVE pullRewinding(_, _)
\* an Iterator whose FromValues starts over once it has told it is exhausted
pullRewinding(s, d) ==
  CASE s.kind = "FromValues" ->
         IF s.reverse
         THEN (IF s.index < 0 THEN Pulled2(NullV, FALSE, [s EXCEPT !.index = Len(s.values) - 1])
               ELSE Pulled2(s.values[s.index + 1], TRUE, [s EXCEPT !.index = @ - 1]))
         ELSE (IF s.index >= Len(s.values) THEN Pulled2(NullV, FALSE, [s EXCEPT !.index = 0])
               ELSE Pulled2(s.values[s.index + 1], TRUE, [s EXCEPT !.index = @ + 1]))
    [] s.kind = "FromIterators" ->
         IF Len(s.its) = 0 THEN Pulled2(NullV, FALSE, s)
         ELSE LET r == pullRewinding(s.its[1], d)
              IN IF r.ok THEN Pulled2(r.value, TRUE, [s EXCEPT !.its[1] = r.next])
                 ELSE pullRewinding([s EXCEPT !.its = Tail(@)], d)
    [] s.kind = "RecurseValues" ->
         IF Len(s.stack) > 0
         THEN LET value == s.stack[Len(s.stack)]
              IN Pulled2(value, TRUE,
                         [s EXCEPT !.stack = SubSeq(@, 1, Len(@) - 1) \o children(value, d)])
         ELSE LET r == pullRewinding(s.its[1], d)
              IN IF ~r.ok THEN Pulled2(NullV, FALSE, [s EXCEPT !.its[1] = r.next])
                 ELSE Pulled2(r.value, TRUE, [s EXCEPT !.its[1] = r.next, !.stack = children(r.value, d)])
    [] OTHER -> Pulled2(NullV, FALSE, s)

RECURSIVE pull(_, _)
\* one call it() of the Iterator in state s
pull(s, d) ==
  CASE s.kind = "FromValues" ->
         IF s.reverse
         THEN (IF s.index < 0 THEN Pulled2(NullV, FALSE, s)
               ELSE Pulled2(s.values[s.index + 1], TRUE, [s EXCEPT !.index = @ - 1]))
         ELSE (IF s.index >= Len(s.values) THEN Pulled2(NullV, FALSE, s)
               ELSE Pulled2(s.values[s.index + 1], TRUE, [s EXCEPT !.index = @ + 1]))
    [] s.kind = "FromIterators" ->
         IF Len(s.its) = 0 THEN Pulled2(NullV, FALSE, s)
         ELSE LET r == pull(s.its[1], d)
              IN IF r.ok THEN Pulled2(r.value, TRUE, [s EXCEPT !.its[1] = r.next])
                 ELSE pull([s EXCEPT !.its = Tail(@)], d)
    [] s.kind = "RecurseValues" ->
         IF Len(s.stack) > 0
         THEN LET value == s.stack[Len(s.stack)]
              IN Pulled2(value, TRUE,
                         [s EXCEPT !.stack = SubSeq(@, 1, Len(@) - 1) \o children(value, d)])
         ELSE LET r == pull(s.its[1], d)
              IN IF ~r.ok THEN Pulled2(NullV, FALSE, [s EXCEPT !.its[1] = r.next])
                 ELSE Pulled2(r.value, TRUE, [s EXCEPT !.its[1] = r.next, !.stack = children(r.value, d)])
    [] OTHER -> Pulled2(NullV, FALSE, s)

RECURSIVE ToSlice(_, _)
\* it.ToSlice(): the values the Iterator in state s returns until it is exhausted
ToSlice(s, d) ==
  LET r == pull(s, d)
  IN IF r.ok THEN <<r.value>> \o ToSlice(r.next, d) ELSE <<>>

\* compose as closures: the upstream is pulled until it is exhausted, the expression
\* of the path is called for each value, and the iterators it returned (each holding
\* what the path yields for its value) are handed to FromIterators
composeIterator(operation, its, path, r, d) ==
  LET upstream == ToSlice(its, d)
  IN FromIteratorsIterator([j \in 1..Len(upstream) |->
       FromValuesIterator(FALSE, Eval(path, operation, upstream[j], r, d))])

\* indices that enters its loop at the from it was given
clipFromNever(from, step, length) == from

\* from as indices clips it before its loop
clipFrom(from, step, length) ==
  IF step > 0 THEN (IF from < 0 THEN 0 ELSE from)
  ELSE (IF from > length THEN length ELSE from)

\* to as indices clips it before its loop
clipTo(to, step, length) ==
  IF step > 0 THEN (IF to > length THEN length ELSE to)
  ELSE (IF to < -1 THEN -1 ELSE to)

\* the arguments slice hands to indices for a member it accepts
indicesArguments(mem, length) ==
  IF mem.wild THEN [from |-> 0, to |-> length, step |-> 1, length |-> length]
  ELSE LET sFrom == mem.parts[1]
           sTo == IF Len(mem.parts) >= 2 THEN mem.parts[2] ELSE Blank
           sStep == IF Len(mem.parts) >= 3 THEN mem.parts[3] ELSE Blank
           step == IF Len(mem.parts) > 1 /\ sStep.present THEN sStep.value ELSE 1
           from == IF sFrom.present
                   THEN (IF sFrom.value < 0 THEN sFrom.value + length ELSE sFrom.value)
                   ELSE (IF step > 0 THEN 0 ELSE length - 1)
           to == IF Len(mem.parts) = 1 THEN from + 1
                 ELSE IF sTo.present
                 THEN (IF sTo.value < 0 THEN sTo.value + length ELSE sTo.value)
                 ELSE (IF step > 0 THEN length ELSE -1)
       IN [from |-> from, to |-> to, step |-> step, length |-> length]

\* the locals of indices when its loop begins
indicesLocals(a) ==
  [from |-> clipFrom(a.from, a.step, a.length), to |-> clipTo(a.to, a.step, a.length),
   step |-> a.step, length |-> a.length]

\* most pulls the caller makes of an iterator that has told it is exhausted
MaxRepull == 2

\* the upstream values of the iterators of the model, for a document with root r
Upstreams(r) == {<<>>, <<r>>, <<IntV(2), r>>, <<r, IntV(2)>>, <<r, r>>}

\* the paths compose applies in the model
ComposedPaths == {<<lexemeDotChild("*")>>, <<lexemeDotChild("a")>>, <<lexemeArraySubscript(Star)>>}

\* an iterator under observation: how it was built, its upstream and path if it has them
Job(kind, built, up, p) == [kind |-> kind, it |-> built, up |-> up, p |-> p]

\* the iterators of the model over a document with root r
Jobs(r, d) ==
  {Job("FromValues", FromValuesIterator(reverse, vs), vs, <<>>) :
     reverse \in BOOLEAN, vs \in Upstreams(r)}
  \cup {Job("FromIterators",
            FromIteratorsIterator([j \in 1..Len(parts) |-> FromValuesIterator(FALSE, parts[j])]),
            parts, <<>>) :
          parts \in {<<>>, <<<<>>, <<IntV(1), r>>, <<>>, <<IntV(2)>>>>, <<<<r>>, <<r, IntV(1)>>>>}}
  \cup {Job("RecurseValues", RecurseValuesIterator(FromValuesIterator(FALSE, vs)), vs, <<>>) :
          vs \in Upstreams(r)}
  \cup {Job("compose",
            composeIterator(getOperation, RecurseValuesIterator(FromValuesIterator(FALSE, <<r>>)),
                            p, r, d),
            ToSlice(RecurseValuesIterator(FromValuesIterator(FALSE, <<r>>)), d), p) :
          p \in ComposedPaths}
  \cup {Job("compose under set",
            composeIterator(setOperation, RecurseValuesIterator(FromValuesIterator(FALSE, <<r>>)),
                            p, r, d),
            ToSlice(RecurseValuesIterator(FromValuesIterator(FALSE, <<r>>)), d), p) :
          p \in ComposedPaths}

\* an iterator has been built over a document and not pulled yet, or indices has been
\* called and is about to enter its loop
InitIter ==
  /\ \/ /\ \E doc \in Docs : heap = doc.heap /\ root = doc.root
        /\ \E ord \in Orders :
             \E job \in Jobs(root, [heap |-> heap, ord |-> ord, returnNullForMissingLeaf |-> FALSE]) :
               /\ call = Call(job.kind, job, NullV, FALSE, FALSE, ord)
               /\ it = job.it
        /\ pc = "pulling"
        /\ ctx = NoContext
     \/ /\ heap = <<Free, Free, Free>>
        /\ root = IntV(1)
        /\ \E mem \in Members, length \in 0..MaxLength :
             /\ ~sliceOne(mem, length).err
             /\ call = Call("indices", <<mem>>, IntV(length), FALSE, FALSE, <<>>)
             /\ ctx = indicesLocals(indicesArguments(mem, length))
             /\ it = Iter("indices", <<>>, ctx.from, FALSE, <<>>, <<>>)
        /\ pc = "looping"
  /\ done = 0
  /\ result = NoReturn
  /\ errs = <<>>
  /\ heap0 = heap
  /\ last = NoCall

\* the caller calls the iterator once more: a range loop such as that of Get, Set or
\* ToSlice until the iterator tells it is exhausted, and a caller that tries again
Pull ==
  /\ pc = "pulling"
  /\ done < MaxRepull
  /\ LET r == pull(it, Env(heap, call))
     IN /\ it' = r.next
        /\ result' = Returned(IF r.ok THEN "value" ELSE "exhausted", r.value,
                              IF r.ok THEN Append(result.l, r.value) ELSE result.l)
        /\ errs' = Append(errs, r.ok)
        /\ done' = IF r.ok THEN done ELSE done + 1
  /\ UNCHANGED <<heap, root, pc, call, ctx, heap0, last>>

\* the condition of the loop of indices
loopGoesOn == (ctx.step > 0 /\ it.index < ctx.to) \/ (ctx.step < 0 /\ it.index > ctx.to)

\* one iteration of the loop of indices
Turn ==
  /\ pc = "looping"
  /\ loopGoesOn
  /\ it' = [it EXCEPT !.index = @ + ctx.step,
                      !.values = IF 0 <= it.index /\ it.index < ctx.length
                                 THEN Append(@, it.index) ELSE @]
  /\ done' = done + 1
  /\ UNCHANGED <<heap, root, pc, call, ctx, result, errs, heap0, last>>

\* the loop of indices ends and indices returns
LoopExit ==
  /\ pc = "looping"
  /\ ~loopGoesOn
  /\ pc' = "returned"
  /\ result' = Returned("indices", NullV, it.values)
  /\ UNCHANGED <<heap, root, call, ctx, it, done, errs, heap0, last>>

NextIter ==
  \/ Pull
  \/ Turn
  \/ LoopExit

SpecIter == InitIter /\ [][NextIter]_vars

\* the caller's loop and the loop of indices are plain sequential code: each goes on
\* as long as it can
SpecIterFair == SpecIter /\ WF_vars(Pull) /\ WF_vars(Turn) /\ WF_vars(LoopExit)

\* the iterator under observation and the values of its upstream
Observed == call.path
Upstream == Observed.up

\* the order the children of a container are emitted in: the items of an array by
\* ascending index, the values of a map last pushed first
VisitOrder(c) == IF isArrayLike(c, heap) THEN heap[c.n].e ELSE Reverse(ChildSeq(c))

RECURSIVE PreOrder(_)
\* a value, then the subtree of each of its children, one after the other
PreOrder(v) == <<v>> \o Concat([j \in 1..Len(VisitOrder(v)) |-> PreOrder(VisitOrder(v)[j])])

\* the subtrees of the first k upstream values, one after the other
Subtrees(k) == Concat([j \in 1..k |-> PreOrder(Upstream[j])])

\* the values the iterator has returned so far
Emitted == result.l

\* s begins with p
StartsWith(s, p) == Len(p) <= Len(s) /\ SubSeq(s, 1, Len(p)) = p

\* C24: RecurseValues emits every upstream value and every descendant of it exactly
\* once, a container before its descendants, the items of an array in ascending index
\* order, and the whole subtree of one upstream value before it pulls the next.
C24_RecurseValuesPreOrder ==
  (pc = "pulling" /\ call.api = "RecurseValues") =>
    LET k == it.its[1].index
    IN /\ StartsWith(Subtrees(Len(Upstream)), Emitted)
       /\ done > 0 => Emitted = Subtrees(Len(Upstream))
       /\ k = 0 => Emitted = <<>>
       /\ k > 0 => Len(Subtrees(k - 1)) < Len(Emitted) /\ Len(Emitted) <= Len(Subtrees(k))

\* an array that holds a container and a scalar, walked to the end ahead of a second
\* upstream value
C24_Witness ==
  /\ pc = "pulling"
  /\ call.api = "RecurseValues"
  /\ done > 0
  /\ Len(Upstream) = 2
  /\ isArrayLike(Upstream[1], heap)
  /\ Len(heap[Upstream[1].n].e) >= 2
  /\ IsContainer(heap[Upstream[1].n].e[1])
  /\ ChildSeq(heap[Upstream[1].n].e[1]) # <<>>
  /\ Emitted = PreOrder(Upstream[1]) \o <<Upstream[2]>>

\* the sub-sequence the path of a compose yields for upstream value j
SubSequence(j) == Eval(Observed.p, getOperation, Upstream[j], root, Env(heap, call))

\* the sub-sequences of all upstream values, one after the other in upstream order
Composed == Concat([j \in 1..Len(Upstream) |-> SubSequence(j)])

\* C25: compose yields the concatenation, in upstream order, of the sub-sequences the
\* path produces for the upstream values, and starts the sub-sequence of an upstream
\* value only when those of all earlier values are exhausted.
C25_ComposeConcatenates ==
  (pc = "pulling" /\ call.api = "compose") =>
    /\ StartsWith(Composed, Emitted)
    /\ done > 0 => Emitted = Composed
    /\ \A k \in 2..Len(it.its) : it.its[k].index = 0

\* two upstream values whose sub-sequences both hold values, pulled to the end
C25_Witness ==
  /\ pc = "pulling"
  /\ call.api = "compose"
  /\ done > 0
  /\ \E j, k \in 1..Len(Upstream) :
       /\ j < k
       /\ Len(SubSequence(j)) >= 2
       /\ SubSequence(k) # <<>>
       /\ SubSequence(j)[1] # SubSequence(k)[1]
  /\ Emitted = Composed

\* whether each pull so far returned a value (TRUE) or 'no more values' (FALSE)
Oks == errs

\* all the values the iterator under observation has to deliver, in order
Expected ==
  CASE call.api = "FromValues" -> (IF Observed.it.reverse THEN Reverse(Upstream) ELSE Upstream)
    [] call.api = "FromIterators" -> Concat(Upstream)
    [] call.api = "RecurseValues" -> Subtrees(Len(Upstream))
    [] OTHER -> <<>>

\* C26: for an iterator built by FromValues, FromIterators or RecurseValues, once a
\* pull has returned ok = false every later pull returns ok = false; no pull fails or
\* panics, and no element is delivered twice.
C26_ExhaustedForGood ==
  (pc = "pulling" /\ call.api \in {"FromValues", "FromIterators", "RecurseValues"}) =>
    /\ \A i, j \in 1..Len(Oks) : (i < j /\ ~Oks[i]) => ~Oks[j]
    /\ result.v # PanicV
    /\ StartsWith(Expected, Emitted)
    /\ done > 0 => Emitted = Expected

\* FromIterators over iterators of which some are empty, pulled twice more after it
\* told it was exhausted
C26_Witness ==
  /\ pc = "pulling"
  /\ call.api = "FromIterators"
  /\ Len(Upstream) = 4
  /\ Upstream[1] = <<>>
  /\ Len(Emitted) = 3
  /\ done = MaxRepull
  /\ Len(Oks) = 3 + MaxRepull
  /\ \A j \in 1..Len(Oks) : Oks[j] <=> j <= 3

\* the evaluation is over: the iterator has told it is exhausted, with nothing left on
\* the stack of RecurseValues, or indices has returned
Terminated ==
  \/ pc = "pulling" /\ result.kind = "exhausted" /\ it.stack = <<>>
  \/ pc = "returned"

\* the iterations the loop of indices has made are no more than the container is long
TurnsWithinLength == pc \in {"looping", "returned"} => done <= Length

\* the iterations the loop of indices has made are no more than the container is long,
\* and one more when the loop runs downwards
TurnsWithinLengthAndOne ==
  pc \in {"looping", "returned"} => done <= Length + (IF ctx.step < 0 THEN 1 ELSE 0)

\* C27 as stated: an evaluation over a finite, acyclic document terminates, the stack
\* of RecurseValues empties, and every slice loop makes at most as many iterations as
\* the container is long, whatever the magnitude of from, to and step.
C27_TerminatesWithinLength == <>Terminated /\ []TurnsWithinLength

\* C27 amended: the same, with a slice loop that runs downwards making at most one
\* iteration more than the container is long.
C27_TerminatesWithinLengthAndOne == <>Terminated /\ []TurnsWithinLengthAndOne

\* a descending range that begins beyond the end of a container of two or more: the
\* loop has made one iteration for the length itself and one for each index
C27_Witness ==
  /\ pc = "returned"
  /\ ctx.step = -1
  /\ Length >= 2
  /\ Sub[1].parts[1].present
  /\ Sub[1].parts[1].value > Length
  /\ done = Length + 1
  /\ Len(result.l) = Length

\* ------------------------------------------------ bracket child names, rune by rune
\* a string is the sequence of its runes
SingleQuote == "'"
DoubleQuote == "\""
Backslash == "\\"
Comma == ","
Space == " "
\* prev := eof of balanced
eofRune == "eof"

\* the longest name
MaxNameLen == 2
\* the longest list of names
MaxNames == 2

\* the runes names are written with
Runes == {"a", Comma, SingleQuote, DoubleQuote, Backslash, Space}

RECURSIVE Split(_, _)
\* strings.Split(s, sep), sep one rune
Split(s, sep) ==
  IF \A j \in 1..Len(s) : s[j] # sep THEN <<s>>
  ELSE LET k == CHOOSE j \in 1..Len(s) : s[j] = sep /\ \A m \in 1..(j - 1) : s[m] # sep
       IN <<SubSeq(s, 1, k - 1)>> \o Split(SubSeq(s, k + 1, Len(s)), sep)

RECURSIVE TrimLeft(_)
TrimLeft(s) == IF s # <<>> /\ Head(s) = Space THEN TrimLeft(Tail(s)) ELSE s

RECURSIVE TrimRight(_)
TrimRight(s) ==
  IF s # <<>> /\ s[Len(s)] = Space THEN TrimRight(SubSeq(s, 1, Len(s) - 1)) ELSE s

\* strings.TrimSpace
TrimSpace(s) == TrimRight(TrimLeft(s))
\* strings.HasPrefix, strings.TrimPrefix, strings.TrimSuffix for a prefix or suffix of one rune
HasPrefix(s, c) == s # <<>> /\ Head(s) = c
TrimPrefix(s, c) == IF HasPrefix(s, c) THEN Tail(s) ELSE s
TrimSuffix(s, c) == IF s # <<>> /\ s[Len(s)] = c THEN SubSeq(s, 1, Len(s) - 1) ELSE s

RECURSIVE balancedLoop(_, _, _, _)
\* the loop of balanced: a quote right after a backslash does not toggle
balancedLoop(token, q, bal, prev) ==
  IF token = <<>> THEN bal
  ELSE LET rune == Head(token) IN
       IF rune = q /\ prev = Backslash THEN balancedLoop(Tail(token), q, bal, rune)
       ELSE balancedLoop(Tail(token), q, IF rune = q THEN ~bal ELSE bal, rune)

\* balanced(token, q)
balanced(token, q) == balancedLoop(token, q, TRUE, eofRune)

RECURSIVE unescapeLoop(_, _, _)
\* the loop of unescape: a backslash is kept only when escaped by the one before it
unescapeLoop(raw, esc, escaped) ==
  IF raw = <<>> THEN esc
  ELSE LET rune == Head(raw) IN
       IF rune = Backslash
       THEN unescapeLoop(Tail(raw), IF escaped THEN Append(esc, rune) ELSE esc, ~escaped)
       ELSE unescapeLoop(Tail(raw), Append(esc, rune), FALSE)

\* unescape(raw)
unescape(raw) == unescapeLoop(raw, <<>>, FALSE)

RECURSIVE reconstitute(_, _, _)
\* the first loop of bracketChildNames: tokens with unbalanced quotes are joined again
reconstitute(tokens, kept, accum) ==
  IF tokens = <<>> THEN (IF accum # <<>> THEN Append(kept, accum) ELSE kept)
  ELSE LET token == Head(tokens)
           rest == Tail(tokens)
       IN IF balanced(token, SingleQuote) /\ balanced(token, DoubleQuote)
          THEN IF accum # <<>>
               THEN reconstitute(rest, kept, accum \o <<Comma>> \o token)
               ELSE reconstitute(rest, Append(kept, token), <<>>)
          ELSE IF accum = <<>>
               THEN reconstitute(rest, kept, token)
               ELSE reconstitute(rest, Append(kept, accum \o <<Comma>> \o token), <<>>)

\* the body of the second loop of bracketChildNames
unquote(child) ==
  LET token == TrimSpace(child)
  IN unescape(IF HasPrefix(token, SingleQuote)
              THEN TrimSuffix(TrimPrefix(token, SingleQuote), SingleQuote)
              ELSE TrimSuffix(TrimPrefix(token, DoubleQuote), DoubleQuote))

\* bracketChildNames(childNames)
bracketChildNames(childNames) ==
  LET kept == reconstitute(Split(childNames, Comma), <<>>, <<>>)
  IN [j \in 1..Len(kept) |-> unquote(kept[j])]

\* a name as the grammar of child names writes it: inside the quote q, with q and
\* the backslash escaped by a backslash
Written(name, q) ==
  <<q>> \o Concat([j \in 1..Len(name) |->
                     IF name[j] \in {q, Backslash} THEN <<Backslash, name[j]>> ELSE <<name[j]>>])
        \o <<q>>

RECURSIVE Joined(_)
\* the written names, comma-joined
Joined(list) ==
  IF Len(list) = 1 THEN Written(list[1].name, list[1].q)
  ELSE Written(list[1].name, list[1].q) \o <<Comma>> \o Joined(Tail(list))

\* the names: every string of at most MaxNameLen runes
Names == UNION {[1..n -> Runes] : n \in 0..MaxNameLen}
\* the lists of one to MaxNames names, each with the quote it is written in
NameLists ==
  UNION {[1..n -> [name : Names, q : {SingleQuote, DoubleQuote}]] : n \in 1..MaxNames}

\* bracketChildNames(childNames) on the text of a list of names
BracketChildNames(list) ==
  /\ pc = "idle"
  /\ call' = Call("bracketChildNames", list, NullV, FALSE, FALSE, <<>>)
  /\ result' = Returned("names", NullV, bracketChildNames(Joined(list)))
  /\ pc' = "got"
  /\ UNCHANGED <<heap, root, ctx, it, done, errs, heap0, last>>

NextNames ==
  \/ \E list \in NameLists : BracketChildNames(list)
  \/ Return

SpecNames == InitSlice /\ [][NextNames]_vars

\* a call of bracketChildNames has returned
NamesReturned == pc = "got" /\ call.api = "bracketChildNames"
\* the names that were written
Original == [j \in 1..Len(call.path) |-> call.path[j].name]

\* C28: bracketChildNames applied to the comma-joined text of a list of names, each
\* written inside single or double quotes with that quote and the backslash escaped
\* by a backslash, returns exactly the original names in the original order
C28_NamesRoundTrip == NamesReturned => result.l = Original

====
